---- MODULE Spec2Model ----
(***************************************************************************)
(* Model of ezo-common-rs: the command execution and response decoding     *)
(* pipeline for I2C-attached EZO sensor chips.                             *)
(*                                                                         *)
(* Strings and byte buffers are sequences of byte values 0..255; an ASCII  *)
(* character is its code (44 is ',', 63 is '?', 42 is '*').                *)
(***************************************************************************)
EXTENDS Integers, Sequences, FiniteSets, TLC

\* ------------------------------------------------------------------------
\* Bounds of the model
\* ------------------------------------------------------------------------

\* Longest reply body enumerated exhaustively over PayloadBytes.
MaxBody == 2

\* ------------------------------------------------------------------------
\* Program constants
\* ------------------------------------------------------------------------

\* command.rs: pub const MAX_DATA: usize = 401
MAX_DATA == 401

\* lib.rs write_to_ezo: thread::sleep(Duration::from_millis(100))
BackoffMs == 100

\* lib.rs enum ResponseCode discriminants
NoDataExpected == 255
Pending == 254
DeviceError == 2
Success == 1

\* lib.rs enum BpsRate discriminants
BpsRates == {300, 1200, 2400, 9600, 19200, 38400, 57600, 115200}

\* ------------------------------------------------------------------------
\* Results: Ok(value) or Err(chain), chain[1] being the error's kind and
\* the rest the chained causes.
\* ------------------------------------------------------------------------

NoResult == [status |-> "none"]

Ok(v) == [status |-> "ok", val |-> v]

Err(chain) == [status |-> "err", chain |-> chain]

IsOk(r) == r.status = "ok"

IsErr(r) == r.status = "err"

Kind(r) == r.chain[1]

\* error_chain's chain_err: wraps an error under a new kind.
chain_err(r, kind) == IF IsErr(r) THEN Err(<<kind>> \o r.chain) ELSE r

\* ------------------------------------------------------------------------
\* Byte-string helpers
\* ------------------------------------------------------------------------

Comma == 44

\* index of the first element of s[lo..hi] equal to b, 0 when there is
\* none; the left half is searched before the right one
RECURSIVE PositionIn(_, _, _, _)
PositionIn(s, b, lo, hi) ==
    IF lo > hi THEN 0
    ELSE IF lo = hi THEN (IF s[lo] = b THEN lo ELSE 0)
    ELSE LET mid == (lo + hi) \div 2
             left == PositionIn(s, b, lo, mid)
         IN  IF left # 0 THEN left ELSE PositionIn(s, b, mid + 1, hi)

\* Iterator::position / str::find of one byte, 1-based, 0 for None
Position(s, b) == PositionIn(s, b, 1, Len(s))

\* str::starts_with
starts_with(s, p) == Len(s) >= Len(p) /\ SubSeq(s, 1, Len(p)) = p

\* str::get(n..) on a string known to be at least n long
DropPrefix(s, n) == SubSeq(s, n + 1, Len(s))

\* str::split(','): the fields, at least one (possibly empty) field
RECURSIVE split(_, _)
split(s, sep) ==
    LET p == Position(s, sep)
    IN  IF p = 0 THEN <<s>>
        ELSE <<SubSeq(s, 1, p - 1)>> \o split(SubSeq(s, p + 1, Len(s)), sep)

\* the decimal rendering of a natural number ({} of an unsigned integer)
RECURSIVE Decimal(_)
Decimal(n) ==
    IF n < 10 THEN <<48 + n>>
    ELSE Decimal(n \div 10) \o <<48 + (n % 10)>>

\* ------------------------------------------------------------------------
\* lib.rs
\* ------------------------------------------------------------------------

\* response_code without its DeviceError arm
response_code_NoDeviceError(code_byte) ==
    IF code_byte = NoDataExpected THEN "NoDataExpected"
    ELSE IF code_byte = Pending THEN "Pending"
    ELSE IF code_byte = Success THEN "Success"
    ELSE "UnknownError"

\* lib.rs response_code
response_code(code_byte) ==
    IF code_byte = NoDataExpected THEN "NoDataExpected"
    ELSE IF code_byte = Pending THEN "Pending"
    ELSE IF code_byte = DeviceError THEN "DeviceError"
    ELSE IF code_byte = Success THEN "Success"
    ELSE "UnknownError"

\* turn_off_high_bits with the mask 0x3f
turn_off_high_bits_LowSixBits(v) == [i \in 1..Len(v) |-> v[i] % 64]

\* lib.rs turn_off_high_bits: b & 0x7f on every byte
turn_off_high_bits(v) == [i \in 1..Len(v) |-> v[i] % 128]

\* CStr::from_bytes_until_nul in its place: the bytes before the first nul
from_bytes_with_nul_UntilNul(buf) ==
    IF Position(buf, 0) # 0
    THEN Ok(SubSeq(buf, 1, Position(buf, 0) - 1))
    ELSE Err(<<"FromBytesWithNulError">>)

\* CStr::from_bytes_with_nul: the first nul byte must be the last byte
from_bytes_with_nul(buf) ==
    IF Len(buf) > 0 /\ Position(buf, 0) = Len(buf)
    THEN Ok(SubSeq(buf, 1, Len(buf) - 1))
    ELSE Err(<<"FromBytesWithNulError">>)

\* CStr::to_str: UTF-8 validation.  Every multi-byte UTF-8 sequence has
\* bytes of 0x80 and above, and a string of bytes below 0x80 is ASCII.
to_str(bytes) ==
    IF \A i \in 1..Len(bytes) : bytes[i] < 128
    THEN Ok(bytes)
    ELSE Err(<<"Utf8Error">>)

\* string_from_response_data without the call of turn_off_high_bits
string_from_response_data_Unsanitized(response) ==
    LET terminated == chain_err(from_bytes_with_nul(response),
                                "MalformedResponse")
    IN  IF IsErr(terminated) THEN terminated
        ELSE chain_err(to_str(terminated.val), "MalformedResponse")

\* string_from_response_data clearing the high bits after the terminator
\* check instead of before it
string_from_response_data_SanitizedLate(response) ==
    LET terminated == chain_err(from_bytes_with_nul(response),
                                "MalformedResponse")
    IN  IF IsErr(terminated) THEN terminated
        ELSE chain_err(to_str(turn_off_high_bits(terminated.val)),
                       "MalformedResponse")

\* lib.rs string_from_response_data
string_from_response_data(response) ==
    LET buf == turn_off_high_bits(response)
        terminated == chain_err(from_bytes_with_nul(buf), "MalformedResponse")
    IN  IF IsErr(terminated) THEN terminated
        ELSE chain_err(to_str(terminated.val), "MalformedResponse")

\* CString::new followed by as_bytes_with_nul: the wire bytes of a command
\* string, refused when the string has an interior nul
CStringNew(cmd_str) ==
    IF Position(cmd_str, 0) # 0
    THEN Err(<<"NulError">>)
    ELSE Ok(cmd_str \o <<0>>)

\* ------------------------------------------------------------------------
\* command.rs: the commands, their wire strings, delays and response shapes
\* ------------------------------------------------------------------------

\* A command value: the type's name, its numeric argument (Baud,
\* DeviceAddress) and its text argument (Import).
Cmd(name, num, text) == [name |-> name, num |-> num, text |-> text]

NoCmd == Cmd("", 0, <<>>)

\* BpsRate::parse: the rate as a u32
BpsRate_parse(rate) == rate

\* Baud rendered with the rate's Debug form ("Bps300") instead of its number
Baud_command_string_DebugRate(c) ==
    <<66,65,85,68,44,66,112,115>> \o Decimal(BpsRate_parse(c.num))

\* Baud: format!("BAUD,{}", cmd.parse())
Baud_command_string(c) == <<66,65,85,68,44>> \o Decimal(BpsRate_parse(c.num))

\* DeviceAddress: format!("I2C,{}", cmd)
DeviceAddress_command_string(c) == <<73,50,67,44>> \o Decimal(c.num)

\* Import rendered with its argument cut to twelve characters
Import_command_string_Capped(c) ==
    <<73,77,80,79,82,84,44>>
        \o SubSeq(c.text, 1, IF Len(c.text) > 12 THEN 12 ELSE Len(c.text))

\* Import: format!("IMPORT,{}", cmd)
Import_command_string(c) == <<73,77,80,79,82,84,44>> \o c.text

\* Command::get_command_string, per define_command! invocation
get_command_string(c) ==
    CASE c.name = "Baud" -> Baud_command_string(c)                      \* "BAUD,{}"
      [] c.name = "CalibrationClear" -> <<67,65,76,44,67,76,69,65,82>>   \* "CAL,CLEAR"
      [] c.name = "DeviceAddress" -> DeviceAddress_command_string(c)     \* "I2C,{}"
      [] c.name = "DeviceInformation" -> <<73>>                           \* "I"
      [] c.name = "Export" -> <<69,88,80,79,82,84>>                       \* "EXPORT"
      [] c.name = "ExportInfo" -> <<69,88,80,79,82,84,44,63>>             \* "EXPORT,?"
      [] c.name = "Factory" -> <<70,65,67,84,79,82,89>>                   \* "FACTORY"
      [] c.name = "Find" -> <<70>>                                        \* "F"
      [] c.name = "Import" -> Import_command_string(c)                   \* "IMPORT,{}"
      [] c.name = "LedOff" -> <<76,44,48>>                                \* "L,0"
      [] c.name = "LedOn" -> <<76,44,49>>                                 \* "L,1"
      [] c.name = "LedState" -> <<76,44,63>>                              \* "L,?"
      [] c.name = "ProtocolLockDisable" -> <<80,76,79,67,75,44,48>>       \* "PLOCK,0"
      [] c.name = "ProtocolLockEnable" -> <<80,76,79,67,75,44,49>>        \* "PLOCK,1"
      [] c.name = "ProtocolLockState" -> <<80,76,79,67,75,44,63>>         \* "PLOCK,?"
      [] c.name = "Sleep" -> <<83,76,69,69,80>>                           \* "SLEEP"
      [] c.name = "Status" -> <<83,84,65,84,85,83>>                       \* "STATUS"

\* get_delay with Find given no settle delay
get_delay_FindImmediate(c) ==
    IF c.name \in {"Baud", "Factory", "Find", "Sleep"} THEN 0 ELSE 300

\* Command::get_delay, per define_command! invocation
get_delay(c) ==
    IF c.name \in {"Baud", "Factory", "Sleep"} THEN 0 ELSE 300

\* The command_run_fn! arm a define_command! invocation selects:
\* no marker -> NoAck, `Ack` -> Ack, `resp: Type, { parse }` -> Typed.
command_run_fn(c) ==
    IF c.name \in {"Baud", "DeviceAddress", "Factory", "Find", "Sleep"}
    THEN "NoAck"
    ELSE IF c.name \in {"CalibrationClear", "Import", "LedOff", "LedOn",
                        "ProtocolLockDisable", "ProtocolLockEnable"}
    THEN "Ack"
    ELSE "Typed"

\* ------------------------------------------------------------------------
\* Number parsing used by the response parsers
\* ------------------------------------------------------------------------

IsDigit(b) == b >= 48 /\ b <= 57

AllDigits(s) == \A i \in 1..Len(s) : IsDigit(s[i])

\* value of a string of decimal digits
RECURSIVE DigitsValue(_)
DigitsValue(s) ==
    IF Len(s) = 0 THEN 0
    ELSE 10 * DigitsValue(SubSeq(s, 1, Len(s) - 1)) + (s[Len(s)] - 48)

\* ASCII lower-casing of a byte
to_ascii_lowercase(b) == IF b >= 65 /\ b <= 90 THEN b + 32 ELSE b

Lower(s) == [i \in 1..Len(s) |-> to_ascii_lowercase(s[i])]

\* u16::from_str: optional '+', at least one digit, value at most 65535
u16_from_str(s) ==
    LET digits == IF Len(s) > 0 /\ s[1] = 43 THEN Tail(s) ELSE s
    IN  IF Len(digits) = 0 \/ ~AllDigits(digits) THEN Err(<<"ParseIntError">>)
        ELSE IF DigitsValue(digits) > 65535 THEN Err(<<"ParseIntError">>)
        ELSE Ok(DigitsValue(digits))

\* a decimal value mant * 10^exp without trailing zeros in mant
RECURSIVE Normal(_, _)
Normal(mant, exp) ==
    IF mant = 0 THEN [mant |-> 0, exp |-> 0]
    ELSE IF mant % 10 = 0 THEN Normal(mant \div 10, exp + 1)
    ELSE [mant |-> mant, exp |-> exp]

\* f64::from_str: [sign] ( inf | infinity | nan | digits [. digits] [e [sign] digits] )
\* The value is kept as an exact decimal; -0 and 0 are the same value.
f64_from_str(s) ==
    LET signed == Len(s) > 0 /\ s[1] \in {43, 45}
        neg == Len(s) > 0 /\ s[1] = 45
        body == IF signed THEN Tail(s) ELSE s
        low == Lower(body)
        epos == Position(low, 101)
        mpart == IF epos = 0 THEN body ELSE SubSeq(body, 1, epos - 1)
        epart == IF epos = 0 THEN <<>> ELSE SubSeq(body, epos + 1, Len(body))
        esigned == Len(epart) > 0 /\ epart[1] \in {43, 45}
        eneg == Len(epart) > 0 /\ epart[1] = 45
        edigits == IF esigned THEN Tail(epart) ELSE epart
        dot == Position(mpart, 46)
        ipart == IF dot = 0 THEN mpart ELSE SubSeq(mpart, 1, dot - 1)
        fpart == IF dot = 0 THEN <<>> ELSE SubSeq(mpart, dot + 1, Len(mpart))
        e == IF eneg THEN 0 - DigitsValue(edigits) ELSE DigitsValue(edigits)
        n == Normal(DigitsValue(ipart \o fpart), e - Len(fpart))
    IN  IF low \in {<<105,110,102>>, <<105,110,102,105,110,105,116,121>>}
        THEN Ok([class |-> "inf", neg |-> neg, mant |-> 0, exp |-> 0])
        ELSE IF low = <<110,97,110>>
        THEN Ok([class |-> "nan", neg |-> neg, mant |-> 0, exp |-> 0])
        ELSE IF ~AllDigits(ipart) \/ ~AllDigits(fpart)
                \/ Len(ipart) + Len(fpart) = 0
        THEN Err(<<"ParseFloatError">>)
        ELSE IF epos # 0 /\ (Len(edigits) = 0 \/ ~AllDigits(edigits))
        THEN Err(<<"ParseFloatError">>)
        ELSE Ok([class |-> "num", neg |-> neg /\ n.mant # 0,
                 mant |-> n.mant, exp |-> n.exp])

\* ------------------------------------------------------------------------
\* command.rs: FromStr of the command types
\* ------------------------------------------------------------------------

\* ASCII upper-casing of a byte
to_ascii_uppercase(b) == IF b >= 97 /\ b <= 122 THEN b - 32 ELSE b

\* str::to_uppercase, on ASCII strings
to_uppercase(s) == [i \in 1..Len(s) |-> to_ascii_uppercase(s[i])]

CommandParse == Err(<<"CommandParse">>)

\* impl FromStr for Baud: the match on the rate token, 0 for the `_` arm
BpsRate_from_token(tok) ==
    IF tok = <<51,48,48>> THEN 300                              \* "300"
    ELSE IF tok = <<49,50,48,48>> THEN 1200                     \* "1200"
    ELSE IF tok = <<50,52,48,48>> THEN 2400                     \* "2400"
    ELSE IF tok = <<57,54,48,48>> THEN 9600                     \* "9600"
    ELSE IF tok = <<49,57,50,48,48>> THEN 19200                 \* "19200"
    ELSE IF tok = <<51,56,52,48,48>> THEN 38400                 \* "38400"
    ELSE IF tok = <<53,55,54,48,48>> THEN 57600                 \* "57600"
    ELSE IF tok = <<49,49,53,50,48,48>> THEN 115200             \* "115200"
    ELSE 0

\* Baud's FromStr without the check that no field follows the rate
Baud_from_str_ExtraFieldIgnored(s) ==
    LET supper == to_uppercase(s)
    IN  IF starts_with(supper, <<66,65,85,68,44>>)
        THEN LET fields == split(DropPrefix(supper, 5), Comma)
             IN  IF BpsRate_from_token(fields[1]) = 0
                 THEN Err(<<"BpsRateParse">>)
                 ELSE Ok(Cmd("Baud", BpsRate_from_token(fields[1]), <<>>))
        ELSE Err(<<"BaudParse">>)

\* impl FromStr for Baud
Baud_from_str(s) ==
    LET supper == to_uppercase(s)
    IN  IF starts_with(supper, <<66,65,85,68,44>>)              \* "BAUD,"
        THEN LET rest == DropPrefix(supper, 5)
                 fields == split(rest, Comma)
             IN  IF BpsRate_from_token(fields[1]) = 0
                 THEN Err(<<"BpsRateParse">>)
                 ELSE IF Len(fields) > 1 THEN Err(<<"BaudParse">>)
                 ELSE Ok(Cmd("Baud", BpsRate_from_token(fields[1]), <<>>))
        ELSE Err(<<"BaudParse">>)

\* DeviceAddress's FromStr with the address parsed as a u8
DeviceAddress_from_str_ByteAddress(s) ==
    LET supper == to_uppercase(s)
    IN  IF starts_with(supper, <<73,50,67,44>>)
        THEN LET fields == split(DropPrefix(supper, 4), Comma)
                 value == chain_err(u16_from_str(fields[1]), "CommandParse")
             IN  IF IsErr(value) THEN value
                 ELSE IF value.val > 255
                 THEN Err(<<"CommandParse", "ParseIntError">>)
                 ELSE IF Len(fields) > 1 THEN CommandParse
                 ELSE Ok(Cmd("DeviceAddress", value.val, <<>>))
        ELSE CommandParse

\* DeviceAddress's FromStr without the context put on the integer error
DeviceAddress_from_str_IntErrorKept(s) ==
    LET supper == to_uppercase(s)
    IN  IF starts_with(supper, <<73,50,67,44>>)
        THEN LET fields == split(DropPrefix(supper, 4), Comma)
                 value == u16_from_str(fields[1])
             IN  IF IsErr(value) THEN value
                 ELSE IF Len(fields) > 1 THEN CommandParse
                 ELSE Ok(Cmd("DeviceAddress", value.val, <<>>))
        ELSE CommandParse

\* impl FromStr for DeviceAddress
DeviceAddress_from_str(s) ==
    LET supper == to_uppercase(s)
    IN  IF starts_with(supper, <<73,50,67,44>>)                 \* "I2C,"
        THEN LET rest == DropPrefix(supper, 4)
                 fields == split(rest, Comma)
                 value == chain_err(u16_from_str(fields[1]), "CommandParse")
             IN  IF IsErr(value) THEN value
                 ELSE IF Len(fields) > 1 THEN CommandParse
                 ELSE Ok(Cmd("DeviceAddress", value.val, <<>>))
        ELSE CommandParse

\* Import's FromStr taking the argument from s instead of supper
Import_from_str_CaseKept(s) ==
    LET supper == to_uppercase(s)
    IN  IF starts_with(supper, <<73,77,80,79,82,84,44>>)
        THEN LET fields == split(DropPrefix(s, 7), Comma)
             IN  IF ~(Len(fields[1]) > 0 /\ Len(fields[1]) < 13) THEN CommandParse
                 ELSE IF Len(fields) > 1 THEN CommandParse
                 ELSE Ok(Cmd("Import", 0, fields[1]))
        ELSE CommandParse

\* impl FromStr for Import
Import_from_str(s) ==
    LET supper == to_uppercase(s)
    IN  IF starts_with(supper, <<73,77,80,79,82,84,44>>)        \* "IMPORT,"
        THEN LET rest == DropPrefix(supper, 7)
                 fields == split(rest, Comma)
             IN  IF ~(Len(fields[1]) > 0 /\ Len(fields[1]) < 13) THEN CommandParse
                 ELSE IF Len(fields) > 1 THEN CommandParse
                 ELSE Ok(Cmd("Import", 0, fields[1]))
        ELSE CommandParse

\* The string literal matched by the FromStr of a command without argument
from_str_literal(name) ==
    CASE name = "CalibrationClear" -> <<67,65,76,44,67,76,69,65,82>>     \* "CAL,CLEAR"
      [] name = "DeviceInformation" -> <<73>>                             \* "I"
      [] name = "Export" -> <<69,88,80,79,82,84>>                         \* "EXPORT"
      [] name = "ExportInfo" -> <<69,88,80,79,82,84,44,63>>               \* "EXPORT,?"
      [] name = "Factory" -> <<70,65,67,84,79,82,89>>                     \* "FACTORY"
      [] name = "Find" -> <<70>>                                          \* "F"
      [] name = "LedOff" -> <<76,44,48>>                                  \* "L,0"
      [] name = "LedOn" -> <<76,44,49>>                                   \* "L,1"
      [] name = "LedState" -> <<76,44,63>>                                \* "L,?"
      [] name = "ProtocolLockDisable" -> <<80,76,79,67,75,44,48>>         \* "PLOCK,0"
      [] name = "ProtocolLockEnable" -> <<80,76,79,67,75,44,49>>          \* "PLOCK,1"
      [] name = "ProtocolLockState" -> <<80,76,79,67,75,44,63>>           \* "PLOCK,?"
      [] name = "Sleep" -> <<83,76,69,69,80>>                             \* "SLEEP"
      [] name = "Status" -> <<83,84,65,84,85,83>>                         \* "STATUS"

\* s.parse::<T>() for the command type named name
from_str(name, s) ==
    CASE name = "Baud" -> Baud_from_str(s)
      [] name = "DeviceAddress" -> DeviceAddress_from_str(s)
      [] name = "Import" -> Import_from_str(s)
      [] OTHER -> IF to_uppercase(s) = from_str_literal(name)
                  THEN Ok(Cmd(name, 0, <<>>))
                  ELSE CommandParse

\* ------------------------------------------------------------------------
\* response.rs: the typed response parsers
\* ------------------------------------------------------------------------

ResponseParse == Err(<<"ResponseParse">>)

\* The outcome of a call that panics instead of returning
Panic == [status |-> "panic"]

\* str::get(n..) is None: the string is shorter than n, so that
\* response.get(n..).unwrap() panics
get_is_none(s, n) == n > Len(s)

\* response.rs enum ResponseStatus
ResponseStatus(v) == [type |-> "ResponseStatus", v |-> v]

\* DeviceInfo::parse checking only the device for emptiness
DeviceInfo_parse_EmptyFirmwareAllowed(response) ==
    IF starts_with(response, <<63,73,44>>)
    THEN LET fields == split(DropPrefix(response, 3), Comma)
         IN  IF Len(fields) # 2 THEN ResponseParse
             ELSE IF Len(fields[1]) = 0 THEN ResponseParse
             ELSE Ok([type |-> "DeviceInfo",
                      device |-> fields[1], firmware |-> fields[2]])
    ELSE ResponseParse

\* response.rs DeviceInfo::parse
DeviceInfo_parse(response) ==
    IF starts_with(response, <<63,73,44>>)                      \* "?I,"
    THEN IF get_is_none(response, 3) THEN Panic ELSE
         LET rest == DropPrefix(response, 3)
             fields == split(rest, Comma)
         IN  IF Len(fields) < 2 THEN ResponseParse
             ELSE IF Len(fields) > 2 THEN ResponseParse
             ELSE IF Len(fields[2]) = 0 \/ Len(fields[1]) = 0 THEN ResponseParse
             ELSE Ok([type |-> "DeviceInfo",
                      device |-> fields[1], firmware |-> fields[2]])
    ELSE ResponseParse

\* response.rs DeviceStatus::parse, the restart reason letter
RestartReason(letter) ==
    IF letter = <<80>> THEN "PoweredOff"                        \* "P"
    ELSE IF letter = <<83>> THEN "SoftwareReset"                \* "S"
    ELSE IF letter = <<66>> THEN "BrownOut"                     \* "B"
    ELSE IF letter = <<87>> THEN "Watchdog"                     \* "W"
    ELSE IF letter = <<85>> THEN "Unknown"                      \* "U"
    ELSE "none"

\* DeviceStatus::parse without the check that no field follows the voltage
DeviceStatus_parse_ExtraFieldIgnored(response) ==
    IF starts_with(response, <<63,83,84,65,84,85,83,44>>)
    THEN LET fields == split(DropPrefix(response, 8), Comma)
             voltage == IF Len(fields) >= 2
                        THEN chain_err(f64_from_str(fields[2]), "ResponseParse")
                        ELSE ResponseParse
         IN  IF RestartReason(fields[1]) = "none" THEN ResponseParse
             ELSE IF IsErr(voltage) THEN voltage
             ELSE Ok([type |-> "DeviceStatus",
                      restart_reason |-> RestartReason(fields[1]),
                      vcc_voltage |-> voltage.val])
    ELSE ResponseParse

\* response.rs DeviceStatus::parse
DeviceStatus_parse(response) ==
    IF starts_with(response, <<63,83,84,65,84,85,83,44>>)       \* "?STATUS,"
    THEN IF get_is_none(response, 8) THEN Panic ELSE
         LET rest == DropPrefix(response, 8)
             fields == split(rest, Comma)
             voltage == IF Len(fields) >= 2
                        THEN chain_err(f64_from_str(fields[2]), "ResponseParse")
                        ELSE ResponseParse
         IN  IF RestartReason(fields[1]) = "none" THEN ResponseParse
             ELSE IF IsErr(voltage) THEN voltage
             ELSE IF Len(fields) > 2 THEN ResponseParse
             ELSE Ok([type |-> "DeviceStatus",
                      restart_reason |-> RestartReason(fields[1]),
                      vcc_voltage |-> voltage.val])
    ELSE ResponseParse

\* Exported::parse with the length matched against 1..=13
Exported_parse_ThirteenAllowed(response) ==
    IF starts_with(response, <<42>>)
    THEN IF response = <<42,68,79,78,69>>
         THEN Ok([type |-> "Exported", v |-> "Done", s |-> <<>>])
         ELSE ResponseParse
    ELSE IF Len(response) >= 1 /\ Len(response) <= 13
         THEN Ok([type |-> "Exported", v |-> "ExportString", s |-> response])
         ELSE ResponseParse

\* response.rs Exported::parse
Exported_parse(response) ==
    IF starts_with(response, <<42>>)                            \* "*"
    THEN IF response = <<42,68,79,78,69>>                       \* "*DONE"
         THEN Ok([type |-> "Exported", v |-> "Done", s |-> <<>>])
         ELSE ResponseParse
    ELSE IF Len(response) >= 1 /\ Len(response) < 13
         THEN Ok([type |-> "Exported", v |-> "ExportString", s |-> response])
         ELSE ResponseParse

\* ExportedInfo::parse with the two numbers parsed as u32
ExportedInfo_parse_WideNumbers(response) ==
    IF starts_with(response, <<63,69,88,80,79,82,84,44>>)
    THEN LET fields == split(DropPrefix(response, 8), Comma)
             wide(f) == IF Len(f) > 0 /\ AllDigits(f) /\ Len(f) <= 9
                        THEN Ok(DigitsValue(f))
                        ELSE Err(<<"ResponseParse", "ParseIntError">>)
             lines == wide(fields[1])
             total_bytes == IF Len(fields) >= 2 THEN wide(fields[2])
                            ELSE ResponseParse
         IN  IF IsErr(lines) THEN lines
             ELSE IF IsErr(total_bytes) THEN total_bytes
             ELSE IF Len(fields) > 2 THEN ResponseParse
             ELSE Ok([type |-> "ExportedInfo",
                      lines |-> lines.val, total_bytes |-> total_bytes.val])
    ELSE ResponseParse

\* response.rs ExportedInfo::parse
ExportedInfo_parse(response) ==
    IF starts_with(response, <<63,69,88,80,79,82,84,44>>)       \* "?EXPORT,"
    THEN IF get_is_none(response, 8) THEN Panic ELSE
         LET num_str == DropPrefix(response, 8)
             fields == split(num_str, Comma)
             lines == chain_err(u16_from_str(fields[1]), "ResponseParse")
             total_bytes == IF Len(fields) >= 2
                            THEN chain_err(u16_from_str(fields[2]), "ResponseParse")
                            ELSE ResponseParse
         IN  IF IsErr(lines) THEN lines
             ELSE IF IsErr(total_bytes) THEN total_bytes
             ELSE IF Len(fields) > 2 THEN ResponseParse
             ELSE Ok([type |-> "ExportedInfo",
                      lines |-> lines.val, total_bytes |-> total_bytes.val])
    ELSE ResponseParse

\* ProtocolLockStatus::parse without the check that no field follows
ProtocolLockStatus_parse_ExtraFieldIgnored(response) ==
    IF starts_with(response, <<63,80,76,79,67,75,44>>)
    THEN LET fields == split(DropPrefix(response, 7), Comma)
         IN  IF fields[1] # <<49>> /\ fields[1] # <<48>> THEN ResponseParse
             ELSE Ok([type |-> "ProtocolLockStatus",
                      v |-> IF fields[1] = <<49>> THEN "On" ELSE "Off"])
    ELSE ResponseParse

\* response.rs ProtocolLockStatus::parse
ProtocolLockStatus_parse(response) ==
    IF starts_with(response, <<63,80,76,79,67,75,44>>)          \* "?PLOCK,"
    THEN IF get_is_none(response, 7) THEN Panic ELSE
         LET rest == DropPrefix(response, 7)
             fields == split(rest, Comma)
         IN  IF fields[1] # <<49>> /\ fields[1] # <<48>> THEN ResponseParse
             ELSE IF Len(fields) > 1 THEN ResponseParse
             ELSE Ok([type |-> "ProtocolLockStatus",
                      v |-> IF fields[1] = <<49>> THEN "On" ELSE "Off"])
    ELSE ResponseParse

\* LedStatus::parse testing for "?L" only before it takes response.get(3..)
LedStatus_parse_ShortTag(response) ==
    IF starts_with(response, <<63,76>>)
    THEN IF get_is_none(response, 3) THEN Panic ELSE
         LET rest == DropPrefix(response, 3)
         IN  IF rest = <<49>> THEN Ok([type |-> "LedStatus", v |-> "On"])
             ELSE IF rest = <<48>> THEN Ok([type |-> "LedStatus", v |-> "Off"])
             ELSE ResponseParse
    ELSE ResponseParse

\* response.rs LedStatus::parse
LedStatus_parse(response) ==
    IF starts_with(response, <<63,76,44>>)                      \* "?L,"
    THEN IF get_is_none(response, 3) THEN Panic ELSE
         LET rest == DropPrefix(response, 3)
         IN  IF rest = <<49>> THEN Ok([type |-> "LedStatus", v |-> "On"])
             ELSE IF rest = <<48>> THEN Ok([type |-> "LedStatus", v |-> "Off"])
             ELSE ResponseParse
    ELSE ResponseParse

\* The $run_func block of a typed command: the parser applied to resp
run_func(c, resp) ==
    CASE c.name = "DeviceInformation" -> DeviceInfo_parse(resp)
      [] c.name = "Export" -> Exported_parse(resp)
      [] c.name = "ExportInfo" -> ExportedInfo_parse(resp)
      [] c.name = "LedState" -> LedStatus_parse(resp)
      [] c.name = "ProtocolLockState" -> ProtocolLockStatus_parse(resp)
      [] c.name = "Status" -> DeviceStatus_parse(resp)

\* lib.rs tests macro_creates_impl_for_ack_simple_command and
\* macro_creates_impl_for_noack_simple_command_with_response: "cmd" with
\* delay 0, once with the Ack arm and once with `_resp: u32, { Ok (0u32) }`
TestCommands == {Cmd("ControlCommandAck", 0, <<>>),
                 Cmd("ControlCommandResp", 0, <<>>)}

\* get_command_string, get_delay, the run arm and the $run_func block,
\* over the commands of command.rs and the macro tests' commands
CommandString(c) ==
    IF c \in TestCommands THEN <<99,109,100>>                   \* "cmd"
    ELSE get_command_string(c)

Delay(c) == IF c \in TestCommands THEN 0 ELSE get_delay(c)

RunArm(c) ==
    IF c.name = "ControlCommandAck" THEN "Ack"
    ELSE IF c.name = "ControlCommandResp" THEN "Typed"
    ELSE command_run_fn(c)

RunFunc(c, resp) ==
    IF c.name = "ControlCommandResp" THEN Ok([type |-> "u32", v |-> 0])
    ELSE run_func(c, resp)

\* ------------------------------------------------------------------------
\* Inputs: the commands a caller runs and the replies a chip sends
\* ------------------------------------------------------------------------

\* Import arguments: "ABC", "123456abcdef", and "A\0B" with an interior nul
ImportArgs == {<<65,66,67>>,
               <<49,50,51,52,53,54,97,98,99,100,101,102>>,
               <<65,0,66>>}

\* I2C addresses given to DeviceAddress
Addresses == {0, 88, 65535}

Commands ==
    {Cmd("Baud", r, <<>>) : r \in BpsRates}
    \cup {Cmd("DeviceAddress", a, <<>>) : a \in Addresses}
    \cup {Cmd("Import", 0, t) : t \in ImportArgs}
    \cup {Cmd(n, 0, <<>>) : n \in {"CalibrationClear", "DeviceInformation",
            "Export", "ExportInfo", "Factory", "Find", "LedOff", "LedOn",
            "LedState", "ProtocolLockDisable", "ProtocolLockEnable",
            "ProtocolLockState", "Sleep", "Status"}}

AllCommands == Commands \cup TestCommands

\* Status bytes tried with every body: 0x00, the four named codes, 0x81
StatusBytes == {0, 1, 2, 129, 254, 255}

\* Body bytes enumerated exhaustively: nul, 'A', 0x80, 'A' with bit 7 set
PayloadBytes == {0, 65, 128, 193}

\* Filler after the body: nul (a terminator and padding) or 'z' (no nul)
FillBytes == {0, 122}

RECURSIVE SeqsUpTo(_, _)
SeqsUpTo(S, n) ==
    IF n = 0 THEN {<<>>}
    ELSE LET shorter == SeqsUpTo(S, n - 1)
         IN  shorter \cup {Append(q, x) : q \in shorter, x \in S}

ShortBodies == SeqsUpTo(PayloadBytes, MaxBody)

\* Texts a chip answers with, well-formed and not
Texts ==
    { <<63,76,44,49>>,                                  \* "?L,1"
      <<191,76,172,49>>,                                \* "?L,1", high bits set
      <<63,76,128,44,49>>,                              \* "?L" 0x80 ",1"
      <<63,76,44,49,44,48>>,                            \* "?L,1,0"
      <<63,80,76,79,67,75,44,48>>,                      \* "?PLOCK,0"
      <<63,73,44,82,84,68,44,50,46,48,49>>,             \* "?I,RTD,2.01"
      <<63,73,44,82,84,68,44>>,                         \* "?I,RTD,"
      <<63,83,84,65,84,85,83,44,80,44,53,46,48,51,56>>, \* "?STATUS,P,5.038"
      <<63,69,88,80,79,82,84,44,49,48,44,49,50,48>>,    \* "?EXPORT,10,120"
      <<42,68,79,78,69>>,                               \* "*DONE"
      <<49,50,51,52,53,54,97,98,99,100,101,102>> }      \* "123456abcdef"

\* ... followed by the fill, or by a nul and then the fill
TextBodies == Texts \cup {Append(t, 0) : t \in Texts}

\* A reply buffer of MAX_DATA bytes: status byte, body, fill to the end
Reply(st, body, fill) ==
    [i \in 1..MAX_DATA |->
        IF i = 1 THEN st
        ELSE IF i - 1 <= Len(body) THEN body[i - 1]
        ELSE fill]

Replies ==
    {Reply(st, b, f) : st \in StatusBytes, b \in ShortBodies \cup TextBodies,
                       f \in FillBytes}
    \cup {Reply(st, <<>>, 0) : st \in 0..255}

\* ------------------------------------------------------------------------
\* The state of one Command::run invocation
\* ------------------------------------------------------------------------

VARIABLES
    pc,           \* position in run: Idle, Writing, Retrying, Delaying,
                  \* Reading, Decoding, Parsing, Done, Failed
    cmd,          \* self
    trace,        \* what run has done to the device and the thread so far
    data_buffer,  \* the reply buffer, <<>> before it is declared
    resp,         \* the decoded string handed to $run_func
    result,       \* run's return value
    input,        \* the argument of a function applied on its own
    output        \* its value, NoResult before the application

vars == <<pc, cmd, trace, data_buffer, resp, result, input, output>>

\* An entry of trace: a transport write or read, a sleep, or a step of the
\* decoding (status: response_code consulted; decode:
\* string_from_response_data called; parse: $run_func evaluated)
Ev(op, ok, data, ms) == [op |-> op, ok |-> ok, data |-> data, ms |-> ms]

Init ==
    /\ pc = "Idle"
    /\ cmd = NoCmd
    /\ trace = <<>>
    /\ data_buffer = <<>>
    /\ resp = <<>>
    /\ result = NoResult
    /\ input = <<>>
    /\ output = NoResult

\* the caller invokes cmd.run(dev)
Start ==
    /\ pc = "Idle"
    /\ \E c \in AllCommands : cmd' = c
    /\ pc' = "Writing"
    /\ trace' = <<>>
    /\ data_buffer' = <<>>
    /\ resp' = <<>>
    /\ result' = NoResult
    /\ UNCHANGED <<input, output>>

\* run's error when write_to_ezo fails with the given message
WriteError(msg, cause) ==
    Err(<<"Error writing to EZO device.", msg, cause>>)

\* the second dev.write's outcome dropped: the first failure is returned
AfterRetry_FirstFailureFatal(ok) == "Failed"

\* the second dev.write's outcome dropped: the failure is swallowed
AfterRetry_FailureSwallowed(ok) == "Delaying"

\* where run goes after the second dev.write of write_to_ezo
AfterRetry(ok) == IF ok THEN "Delaying" ELSE "Failed"

\* write_to_ezo: CString::new and the first dev.write
write_to_ezo ==
    /\ pc = "Writing"
    /\ LET w == CStringNew(CommandString(cmd))
       IN  IF IsErr(w)
           THEN /\ pc' = "Failed"
                /\ result' = WriteError("Command cannot be used", "NulError")
                /\ trace' = trace
           ELSE \E ok \in BOOLEAN :
                /\ trace' = Append(trace, Ev("write", ok, w.val, 0))
                /\ pc' = IF ok THEN "Delaying" ELSE "Retrying"
                /\ result' = result
    /\ UNCHANGED <<cmd, data_buffer, resp, input, output>>

\* write_to_ezo: the backoff and the second dev.write
write_to_ezo_retry ==
    /\ pc = "Retrying"
    /\ \E ok \in BOOLEAN :
        /\ trace' = trace
                \o <<Ev("backoff", TRUE, <<>>, BackoffMs),
                     Ev("write", ok, CStringNew(CommandString(cmd)).val, 0)>>
        /\ pc' = AfterRetry(ok)
        /\ result' = IF AfterRetry(ok) = "Failed"
                     THEN WriteError("Command could not be sent", "io")
                     ELSE result
    /\ UNCHANGED <<cmd, data_buffer, resp, input, output>>

\* the settle sleep with the write backoff's duration
SettleSleep_BackoffDuration(c) ==
    IF Delay(c) > 0 THEN <<Ev("sleep", TRUE, <<>>, BackoffMs)>> ELSE <<>>

\* the settle sleep run makes for a command
SettleSleep(c) ==
    IF Delay(c) > 0 THEN <<Ev("sleep", TRUE, <<>>, Delay(c))>> ELSE <<>>

\* the Ack arm generated without its read, like the NoAck one
Reads_TypedOnly(c) == RunArm(c) = "Typed"

\* every arm generated with the read of the reply
Reads_Always(c) == RunArm(c) \in {"NoAck", "Ack", "Typed"}

\* whether run reads the reply of a command
Reads(c) == RunArm(c) # "NoAck"

\* command_run_fn_common after the write: the settle delay; then the NoAck
\* arm returns and the other arms declare data_buffer
settle_delay ==
    /\ pc = "Delaying"
    /\ trace' = trace \o SettleSleep(cmd)
    /\ IF Reads(cmd)
       THEN /\ pc' = "Reading"
            /\ data_buffer' = [i \in 1..MAX_DATA |-> 0]
            /\ result' = result
       ELSE /\ pc' = "Done"
            /\ data_buffer' = data_buffer
            /\ result' = Ok(ResponseStatus("None"))
    /\ UNCHANGED <<cmd, resp, input, output>>

\* the read's error dropped instead of returned
AfterRead_ErrorIgnored(ok) == "Decoding"

\* where run goes after dev.read
AfterRead(ok) == IF ok THEN "Decoding" ELSE "Failed"

\* dev.read(&mut data_buffer).chain_err(|| ErrorKind::I2CRead)?
read ==
    /\ pc = "Reading"
    /\ \E ok \in BOOLEAN :
        /\ trace' = Append(trace, Ev("read", ok, <<>>, 0))
        /\ pc' = AfterRead(ok)
        /\ IF ok
           THEN \E r \in Replies : data_buffer' = r
           ELSE data_buffer' = data_buffer
        /\ result' = IF AfterRead(ok) = "Failed"
                     THEN Err(<<"I2CRead", "io">>)
                     ELSE result
    /\ UNCHANGED <<cmd, resp, input, output>>

\* the Ack arm treating an unknown status byte like Success
AckResult_UnknownAccepted(code) ==
    CASE code = "Success" -> Ok(ResponseStatus("Ack"))
      [] code = "Pending" -> Err(<<"PendingResponse">>)
      [] code = "DeviceError" -> Err(<<"DeviceErrorResponse">>)
      [] code = "NoDataExpected" -> Err(<<"NoDataExpectedResponse">>)
      [] code = "UnknownError" -> Ok(ResponseStatus("Ack"))

\* the Ack arm's match on response_code(data_buffer[0])
AckResult(code) ==
    CASE code = "Success" -> Ok(ResponseStatus("Ack"))
      [] code = "Pending" -> Err(<<"PendingResponse">>)
      [] code = "DeviceError" -> Err(<<"DeviceErrorResponse">>)
      [] code = "NoDataExpected" -> Err(<<"NoDataExpectedResponse">>)
      [] code = "UnknownError" -> Err(<<"MalformedResponse">>)

\* a Pending reply answered by reading again instead of returning
Returned_RereadOnPending(r) ==
    IF IsOk(r) THEN "Done"
    ELSE IF Kind(r) = "PendingResponse" THEN "Reading"
    ELSE "Failed"

\* where run is once its match has produced the value it returns
Returned(r) == IF IsOk(r) THEN "Done" ELSE "Failed"

\* the Ack arm asking for a nul terminator as the typed arm does
decode_Ack_NeedsTerminator ==
    /\ pc = "Decoding"
    /\ RunArm(cmd) = "Ack"
    /\ LET r == IF Position(data_buffer, 0) = 0
                THEN Err(<<"MalformedResponse">>)
                ELSE AckResult(response_code(data_buffer[1]))
       IN  /\ result' = r
           /\ pc' = Returned(r)
    /\ trace' = Append(trace, Ev("status", TRUE, <<data_buffer[1]>>, 0))
    /\ UNCHANGED <<cmd, data_buffer, resp, input, output>>

\* the Ack arm after the read
decode_Ack ==
    /\ pc = "Decoding"
    /\ RunArm(cmd) = "Ack"
    /\ LET r == AckResult(response_code(data_buffer[1]))
       IN  /\ result' = r
           /\ pc' = Returned(r)
    /\ trace' = Append(trace, Ev("status", TRUE, <<data_buffer[1]>>, 0))
    /\ UNCHANGED <<cmd, data_buffer, resp, input, output>>

\* the slice taken up to the terminator but without it: [1..len]
PayloadSlice_WithoutTerminator(buf, nul) == SubSeq(buf, 2, nul - 1)

\* the slice taken up to the last nul byte of the buffer (rposition)
PayloadSlice_ToLastNul(buf, nul) ==
    SubSeq(buf, 2, CHOOSE i \in 1..Len(buf) :
                      buf[i] = 0 /\ \A j \in (i + 1)..Len(buf) : buf[j] # 0)

\* the slice of the buffer the typed arm decodes, nul being the (1-based)
\* place of the first nul byte: &data_buffer[1..=len]
PayloadSlice(buf, nul) == SubSeq(buf, 2, nul)

\* the typed arm's match on response_code(data_buffer[0]): resp_string
TypedResult(code, buf) ==
    CASE code = "Success" ->
            IF Position(buf, 0) # 0
            THEN chain_err(string_from_response_data(
                               PayloadSlice(buf, Position(buf, 0))),
                           "MalformedResponse")
            ELSE Err(<<"MalformedResponse">>)
      [] code = "Pending" -> Err(<<"PendingResponse">>)
      [] code = "DeviceError" -> Err(<<"DeviceErrorResponse">>)
      [] code = "NoDataExpected" -> Err(<<"NoDataExpectedResponse">>)
      [] code = "UnknownError" -> Err(<<"MalformedResponse">>)

\* what the typed arm's match does besides consulting the status byte
DecodeEvents(code, buf) ==
    IF code = "Success" /\ Position(buf, 0) # 0
    THEN <<Ev("decode", TRUE, PayloadSlice(buf, Position(buf, 0)), 0)>>
    ELSE <<>>

\* the typed arm after the read, up to `let $resp = resp_string?`
decode_Typed ==
    /\ pc = "Decoding"
    /\ RunArm(cmd) = "Typed"
    /\ LET code == response_code(data_buffer[1])
           r == TypedResult(code, data_buffer)
       IN  /\ trace' = Append(trace, Ev("status", TRUE, <<data_buffer[1]>>, 0))
                       \o DecodeEvents(code, data_buffer)
           /\ IF IsOk(r)
              THEN /\ pc' = "Parsing"
                   /\ resp' = r.val
                   /\ result' = result
              ELSE /\ pc' = "Failed"
                   /\ resp' = resp
                   /\ result' = r
    /\ UNCHANGED <<cmd, data_buffer, input, output>>

\* the typed arm wrapping a parser's error as it wraps a decoding error
parse_ErrorRewrapped ==
    /\ pc = "Parsing"
    /\ LET r == chain_err(RunFunc(cmd, resp), "MalformedResponse")
       IN  /\ result' = r
           /\ pc' = Returned(r)
    /\ trace' = Append(trace, Ev("parse", TRUE, resp, 0))
    /\ UNCHANGED <<cmd, data_buffer, resp, input, output>>

\* the typed arm's $run_func block
parse ==
    /\ pc = "Parsing"
    /\ LET r == RunFunc(cmd, resp)
       IN  /\ result' = r
           /\ pc' = Returned(r)
    /\ trace' = Append(trace, Ev("parse", TRUE, resp, 0))
    /\ UNCHANGED <<cmd, data_buffer, resp, input, output>>

\* run has returned; the caller drops the command and the result
return ==
    /\ pc \in {"Done", "Failed"}
    /\ pc' = "Idle"
    /\ cmd' = NoCmd
    /\ trace' = <<>>
    /\ data_buffer' = <<>>
    /\ resp' = <<>>
    /\ result' = NoResult
    /\ UNCHANGED <<input, output>>

Next ==
    \/ Start
    \/ write_to_ezo
    \/ write_to_ezo_retry
    \/ settle_delay
    \/ read
    \/ decode_Ack
    \/ decode_Typed
    \/ parse
    \/ return

Spec == Init /\ [][Next]_vars

TypeOK ==
    /\ pc \in {"Idle", "Writing", "Retrying", "Delaying", "Reading",
               "Decoding", "Parsing", "Done", "Failed"}
    /\ cmd \in AllCommands \cup {NoCmd}

\* ------------------------------------------------------------------------
\* response_code applied on its own to every byte
\* ------------------------------------------------------------------------

InitResponseCode ==
    /\ pc = "Idle"
    /\ cmd = NoCmd
    /\ trace = <<>>
    /\ data_buffer = <<>>
    /\ resp = <<>>
    /\ result = NoResult
    /\ input \in {<<b>> : b \in 0..255}
    /\ output = NoResult

ApplyResponseCode ==
    /\ output = NoResult
    /\ output' = Ok(response_code(input[1]))
    /\ UNCHANGED <<pc, cmd, trace, data_buffer, resp, result, input>>

SpecResponseCode == InitResponseCode /\ [][ApplyResponseCode]_vars

\* ------------------------------------------------------------------------
\* Commands built, rendered and parsed on their own
\* ------------------------------------------------------------------------

\* Longest Import argument a caller builds
MaxImport == 34

\* n times the byte b
Repeat(b, n) == [i \in 1..n |-> b]

\* Import arguments a caller builds: "A" repeated 0..MaxImport times, "1",
\* "abc", "aBc", "123456abcdef", "123456ABCDEF", "ABCDEFGHIJKLMNO" and "A,B"
BuiltImportArgs ==
    {Repeat(65, n) : n \in 0..MaxImport}
    \cup { <<49>>, <<97,98,99>>, <<97,66,99>>,
           <<49,50,51,52,53,54,97,98,99,100,101,102>>,
           <<49,50,51,52,53,54,65,66,67,68,69,70>>,
           <<65,66,67,68,69,70,71,72,73,74,75,76,77,78,79>>,
           <<65,44,66>> }

\* u16 addresses a caller builds a DeviceAddress with
BuiltAddresses == {0, 1, 7, 88, 123, 255, 256, 65535}

\* the command types without argument
UnitCommandTypes ==
    {"CalibrationClear", "DeviceInformation", "Export", "ExportInfo",
     "Factory", "Find", "LedOff", "LedOn", "LedState", "ProtocolLockDisable",
     "ProtocolLockEnable", "ProtocolLockState", "Sleep", "Status"}

CommandTypes == UnitCommandTypes \cup {"Baud", "DeviceAddress", "Import"}

\* the values a caller can construct
BuiltCommands ==
    {Cmd("Baud", r, <<>>) : r \in BpsRates}
    \cup {Cmd("DeviceAddress", a, <<>>) : a \in BuiltAddresses}
    \cup {Cmd("Import", 0, t) : t \in BuiltImportArgs}
    \cup {Cmd(n, 0, <<>>) : n \in UnitCommandTypes}

\* Texts given to FromStr that no command renders
OddTexts ==
    { <<>>,
      <<66,65,85,68>>,                          \* "BAUD"
      <<66,65,85,68,44>>,                       \* "BAUD,"
      <<66,65,85,68,44,51,48,49>>,              \* "BAUD,301"
      <<66,65,85,68,44,48,51,48,48>>,           \* "BAUD,0300"
      <<66,65,85,68,44,51,48,48,48>>,           \* "BAUD,3000"
      <<66,65,85,68,44,44,51,48,48>>,           \* "BAUD,,300"
      <<66,65,85,68,44,32,51,48,48>>,           \* "BAUD, 300"
      <<66,65,85,68,44,97,98,99>>,              \* "BAUD,abc"
      <<66,65,85,68,51,48,48>>,                 \* "BAUD300"
      <<73,50,67,44>>,                          \* "I2C,"
      <<73,50,67,44,49,97,50,49,46,52,51>>,     \* "I2C,1a21.43"
      <<73,50,67,44,54,53,53,51,54>>,           \* "I2C,65536"
      <<73,50,67,44,43,53>>,                    \* "I2C,+5"
      <<73,50,67,44,45,49>>,                    \* "I2C,-1"
      <<73,50,67,44,48,48,55>>,                 \* "I2C,007"
      <<73,77,80,79,82,84,44>>,                 \* "IMPORT,"
      <<73,77,80,79,82,84>>,                    \* "IMPORT"
      <<73,77,80,79,82,84,44,49,50,51,52,53,54,55,56,57,48,97,98,99>>,
                                                \* "IMPORT,1234567890abc"
      <<32,73>>,                                \* " I"
      <<76,44,50>>,                             \* "L,2"
      <<80,76,79,67,75>>,                       \* "PLOCK"
      <<83,84,65,84,85,83,69,83>>,              \* "STATUSES"
      <<88>> }                                  \* "X"

\* Texts given to FromStr: the renderings of Commands and the odd texts,
\* as they are, in lower case, and with "," or ",1" appended
WireTexts ==
    LET base == {get_command_string(c) : c \in Commands} \cup OddTexts
    IN  base \cup {Lower(t) : t \in base}
             \cup {Append(t, Comma) : t \in base}
             \cup {t \o <<Comma, 49>> : t \in base}

IsLetter(b) == (b >= 65 /\ b <= 90) \/ (b >= 97 /\ b <= 122)

\* s with the case of its i-th character changed when it is a letter
Toggle(s, i) ==
    [s EXCEPT ![i] = IF @ >= 65 /\ @ <= 90 THEN @ + 32
                     ELSE IF @ >= 97 /\ @ <= 122 THEN @ - 32
                     ELSE @]

\* Case variants of s a caller tries: all upper, all lower, one letter changed
CaseVariants(s) ==
    ({to_uppercase(s), Lower(s)} \cup {Toggle(s, i) : i \in 1..Len(s)}) \ {s}

\* the call s.parse::<type>() to be made
Call(type, s) == [type |-> type, s |-> s]

InitCommand ==
    /\ pc = "Idle"
    /\ cmd = NoCmd
    /\ trace = <<>>
    /\ data_buffer = <<>>
    /\ resp = <<>>
    /\ result = NoResult
    /\ input = Call("", <<>>)
    /\ output = NoResult

\* the caller constructs a command value and renders it
new_command ==
    /\ pc = "Idle"
    /\ \E c \in BuiltCommands :
          /\ cmd' = c
          /\ input' = Call(c.name, get_command_string(c))
    /\ pc' = "Rendered"
    /\ UNCHANGED <<trace, data_buffer, resp, result, output>>

\* the caller has a text from elsewhere and a command type to parse it as
type_text ==
    /\ pc = "Idle"
    /\ \E t \in CommandTypes, s \in WireTexts : input' = Call(t, s)
    /\ pc' = "Typed"
    /\ UNCHANGED <<cmd, trace, data_buffer, resp, result, output>>

\* input.s.parse::<input.type>()
parse_text ==
    /\ pc \in {"Rendered", "Typed", "Recased"}
    /\ output' = from_str(input.type, input.s)
    /\ pc' = IF pc = "Recased" THEN "Reparsed" ELSE "Parsed"
    /\ UNCHANGED <<cmd, trace, data_buffer, resp, result, input>>

\* the caller keeps the text and its result and takes a case variant of it
recase ==
    /\ pc = "Parsed"
    /\ \E v \in CaseVariants(input.s) : input' = Call(input.type, v)
    /\ resp' = input.s
    /\ result' = output
    /\ output' = NoResult
    /\ pc' = "Recased"
    /\ UNCHANGED <<cmd, trace, data_buffer>>

\* the caller drops the command, the texts and the results
forget ==
    /\ pc \in {"Parsed", "Reparsed"}
    /\ pc' = "Idle"
    /\ cmd' = NoCmd
    /\ resp' = <<>>
    /\ result' = NoResult
    /\ input' = Call("", <<>>)
    /\ output' = NoResult
    /\ UNCHANGED <<trace, data_buffer>>

NextCommand ==
    \/ new_command
    \/ type_text
    \/ parse_text
    \/ recase
    \/ forget

SpecCommand == InitCommand /\ [][NextCommand]_vars

\* ------------------------------------------------------------------------
\* Response parsers applied on their own to decoded strings
\* ------------------------------------------------------------------------

\* Longest tail enumerated exhaustively after a response tag
MaxTail == 4

\* Longest run of one character given to Exported::parse
MaxExport == 14

\* The parsers checked on their own
ResponseTypes ==
    {"DeviceInfo", "DeviceStatus", "Exported", "ExportedInfo",
     "ProtocolLockStatus", "LedStatus"}

\* a parser's leading tag: "?I,", "?STATUS,", none for Exported,
\* "?EXPORT,", "?PLOCK,", "?L,"
ResponseTag(type) ==
    CASE type = "DeviceInfo" -> <<63,73,44>>
      [] type = "DeviceStatus" -> <<63,83,84,65,84,85,83,44>>
      [] type = "Exported" -> <<>>
      [] type = "ExportedInfo" -> <<63,69,88,80,79,82,84,44>>
      [] type = "ProtocolLockStatus" -> <<63,80,76,79,67,75,44>>
      [] type = "LedStatus" -> <<63,76,44>>

\* the tag as it is, in lower case, without its '?', without its comma,
\* and left out
TagVariants(type) ==
    LET tag == ResponseTag(type)
    IN  {tag, Lower(tag), <<>>}
        \cup (IF tag = <<>> THEN {}
              ELSE {Tail(tag), SubSeq(tag, 1, Len(tag) - 1)})

\* the characters of the tails enumerated after a tag:
\* ",R2" for DeviceInfo, ",PUx5." for DeviceStatus, "*Da," for Exported,
\* ",16+x" for ExportedInfo, ",012" for ProtocolLockStatus and LedStatus
TailBytes(type) ==
    CASE type = "DeviceInfo" -> {44, 82, 50}
      [] type = "DeviceStatus" -> {44, 80, 85, 120, 53, 46}
      [] type = "Exported" -> {42, 68, 97, 44}
      [] type = "ExportedInfo" -> {44, 49, 54, 43, 120}
      [] type = "ProtocolLockStatus" -> {44, 48, 49, 50}
      [] type = "LedStatus" -> {44, 48, 49, 50}

\* Strings of the chip's documentation and of the tests of response.rs
KnownResponses ==
    { <<63,73,44,82,84,68,44,50,46,48,49>>,             \* "?I,RTD,2.01"
      <<63,73,44,82,84,68,44>>,                         \* "?I,RTD,"
      <<63,73,44,44,50,46,48,49>>,                      \* "?I,,2.01"
      <<63,73,44,82,84,68,44,50,46,48,49,44>>,          \* "?I,RTD,2.01,"
      <<63,105,44,82,84,68,44,50,46,48,49>>,            \* "?i,RTD,2.01"
      <<63,83,84,65,84,85,83,44,80,44,53,46,48,51,56>>, \* "?STATUS,P,5.038"
      <<63,83,84,65,84,85,83,44,83,44,49,46,53>>,       \* "?STATUS,S,1.5"
      <<63,83,84,65,84,85,83,44,66,44,53,46,48,51,56>>, \* "?STATUS,B,5.038"
      <<63,83,84,65,84,85,83,44,87,44,53,46,48,51,56>>, \* "?STATUS,W,5.038"
      <<63,83,84,65,84,85,83,44,85,44,49,46,53>>,       \* "?STATUS,U,1.5"
      <<63,83,84,65,84,85,83,44,85,44,49,46,53,44>>,    \* "?STATUS,U,1.5,"
      <<63,83,84,65,84,85,83,44,85,44,49,46,53,44,50>>, \* "?STATUS,U,1.5,2"
      <<63,83,84,65,84,85,83,44,85,44>>,                \* "?STATUS,U,"
      <<63,83,84,65,84,85,83,44,112,44,53,46,48>>,      \* "?STATUS,p,5.0"
      <<63,83,84,65,84,85,83,44,80,83,44,53,46,48>>,    \* "?STATUS,PS,5.0"
      <<63,83,84,65,84,85,83,44,80,44,45,53,46,48>>,    \* "?STATUS,P,-5.0"
      <<63,83,84,65,84,85,83,44,80,44,49,101,51>>,      \* "?STATUS,P,1e3"
      <<63,83,84,65,84,85,83,44,80,44,53,46,48,46,49>>, \* "?STATUS,P,5.0.1"
      <<63,83,84,65,84,85,83,44,80,44,53,86>>,          \* "?STATUS,P,5V"
      <<63,83,84,65,84,85,83,44,80,44,78,97,78>>,       \* "?STATUS,P,NaN"
      <<63,83,84,65,84,85,83,44,80,44,105,110,102>>,    \* "?STATUS,P,inf"
      <<63,115,116,97,116,117,115,44,80,44,53,46,48>>,  \* "?status,P,5.0"
      <<42,68,79,78,69>>,                               \* "*DONE"
      <<42,68,79,78,69,88>>,                            \* "*DONEX"
      <<42,100,111,110,101>>,                           \* "*done"
      <<42>>,                                           \* "*"
      <<49,50,51,52,53,54,97,98,99,100,101,102>>,       \* "123456abcdef"
      <<49,50,51,52,53,54,55,97,98,99,100,101,102>>,    \* "1234567abcdef"
      <<49,50,51,52,42,68,79,78,69>>,                   \* "1234*DONE"
      <<63,69,88,80,79,82,84,44,49,48,44,49,50,48>>,    \* "?EXPORT,10,120"
      <<63,69,88,80,79,82,84,44,49,48,44,49,50,48,44>>, \* "?EXPORT,10,120,"
      <<63,69,88,80,79,82,84,44,49,48,44,49,50,48,44,49>>,
                                                        \* "?EXPORT,10,120,1"
      <<63,69,88,80,79,82,84,44,49,48>>,                \* "?EXPORT,10"
      <<63,69,88,80,79,82,84,44,48,44,48>>,             \* "?EXPORT,0,0"
      <<63,69,88,80,79,82,84,44,54,53,53,51,53,44,54,53,53,51,53>>,
                                                        \* "?EXPORT,65535,65535"
      <<63,69,88,80,79,82,84,44,54,53,53,51,54,44,49>>, \* "?EXPORT,65536,1"
      <<63,69,88,80,79,82,84,44,49,44,54,53,53,51,54>>, \* "?EXPORT,1,65536"
      <<63,69,88,80,79,82,84,44,49,44,57,57,57,57,57>>, \* "?EXPORT,1,99999"
      <<63,69,88,80,79,82,84,44,48,48,55,44,50>>,       \* "?EXPORT,007,2"
      <<63,69,88,80,79,82,84,44,45,49,44,50>>,          \* "?EXPORT,-1,2"
      <<63,69,88,80,79,82,84,44,49,46,53,44,50>>,       \* "?EXPORT,1.5,2"
      <<63,69,88,80,79,82,84,44,49,48,44,49,50,97>>,    \* "?EXPORT,10,12a"
      <<63,101,120,112,111,114,116,44,49,48,44,49,50,48>>,
                                                        \* "?export,10,120"
      <<63,80,76,79,67,75,44,49>>,                      \* "?PLOCK,1"
      <<63,80,76,79,67,75,44,48>>,                      \* "?PLOCK,0"
      <<63,80,76,79,67,75,44,49,44>>,                   \* "?PLOCK,1,"
      <<63,80,76,79,67,75,44,49,48>>,                   \* "?PLOCK,10"
      <<63,112,108,111,99,107,44,49>>,                  \* "?plock,1"
      <<63,76,44,49>>,                                  \* "?L,1"
      <<63,76,44,48>>,                                  \* "?L,0"
      <<63,76,44,49,44>>,                               \* "?L,1,"
      <<63,76,44,49,48>>,                               \* "?L,10"
      <<63,108,44,49>>,                                 \* "?l,1"
      <<63,76>> }                                       \* "?L"

\* The decoded strings given to the parser of a type
ResponseTexts(type) ==
    {t \o q : t \in TagVariants(type),
              q \in SeqsUpTo(TailBytes(type), MaxTail)}
    \cup KnownResponses
    \cup {Repeat(97, n) : n \in 0..MaxExport}

\* T::parse(&s) for the response type named type
response_parse(type, s) ==
    CASE type = "DeviceInfo" -> DeviceInfo_parse(s)
      [] type = "DeviceStatus" -> DeviceStatus_parse(s)
      [] type = "Exported" -> Exported_parse(s)
      [] type = "ExportedInfo" -> ExportedInfo_parse(s)
      [] type = "ProtocolLockStatus" -> ProtocolLockStatus_parse(s)
      [] type = "LedStatus" -> LedStatus_parse(s)

InitResponse ==
    /\ pc = "Idle"
    /\ cmd = NoCmd
    /\ trace = <<>>
    /\ data_buffer = <<>>
    /\ resp = <<>>
    /\ result = NoResult
    /\ input = Call("", <<>>)
    /\ output = NoResult

\* the caller has a decoded string and a response type to parse it as
receive_text ==
    /\ pc = "Idle"
    /\ \E t \in ResponseTypes : \E s \in ResponseTexts(t) : input' = Call(t, s)
    /\ pc' = "Received"
    /\ UNCHANGED <<cmd, trace, data_buffer, resp, result, output>>

\* input.type::parse(&input.s)
parse_response ==
    /\ pc = "Received"
    /\ output' = response_parse(input.type, input.s)
    /\ pc' = "Parsed"
    /\ UNCHANGED <<cmd, trace, data_buffer, resp, result, input>>

NextResponse ==
    \/ receive_text
    \/ parse_response
    \/ forget

SpecResponse == InitResponse /\ [][NextResponse]_vars

\* ------------------------------------------------------------------------
\* turn_off_high_bits and string_from_response_data applied on their own
\* ------------------------------------------------------------------------

\* Longest slice enumerated exhaustively over SliceBytes
MaxSlice == 4

\* Bytes of the slices: nul, 'A', 0x7f, 0x80, 'A' with bit 7 set, 0xff
SliceBytes == {0, 65, 127, 128, 193, 255}

\* Slices of the tests of lib.rs: "?I,pH,1.98\0" with and without high
\* bits, "hello\0", "hell\xef\0"
TestSlices ==
    { <<63,73,44,112,72,44,49,46,57,56,0>>,
      <<63,73,172,112,200,172,49,46,57,56,0>>,
      <<104,101,108,108,111,0>>,
      <<104,101,108,108,239,0>> }

\* The slices given to the two functions
ByteSlices == SeqsUpTo(SliceBytes, MaxSlice) \cup TestSlices

\* s with bit 7 set on the bytes at the places of S
WithHighBits(s, S) ==
    [i \in 1..Len(s) |-> IF i \in S /\ s[i] < 128 THEN s[i] + 128 ELSE s[i]]

InitDecode ==
    /\ pc = "Idle"
    /\ cmd = NoCmd
    /\ trace = <<>>
    /\ data_buffer = <<>>
    /\ resp = <<>>
    /\ result = NoResult
    /\ input = <<>>
    /\ output = NoResult

\* the caller has a slice of bytes
receive_bytes ==
    /\ pc = "Idle"
    /\ \E s \in ByteSlices : input' = s
    /\ pc' = "Raw"
    /\ UNCHANGED <<cmd, trace, data_buffer, resp, result, output>>

\* turn_off_high_bits(&mut buf), on a copy of the slice and then on the
\* buffer it has already been applied to
sanitize ==
    /\ pc \in {"Raw", "Sanitized"}
    /\ IF pc = "Raw"
       THEN /\ output' = Ok(turn_off_high_bits(input))
            /\ resp' = resp
            /\ pc' = "Sanitized"
       ELSE /\ output' = Ok(turn_off_high_bits(output.val))
            /\ resp' = output.val
            /\ pc' = "Resanitized"
    /\ UNCHANGED <<cmd, trace, data_buffer, result, input>>

\* string_from_response_data(&input)
decode ==
    /\ pc \in {"Raw", "Marked"}
    /\ output' = string_from_response_data(input)
    /\ pc' = IF pc = "Raw" THEN "Decoded" ELSE "Redecoded"
    /\ UNCHANGED <<cmd, trace, data_buffer, resp, result, input>>

\* the caller keeps the slice and its result and takes the slice with
\* bit 7 set on some of the bytes before its last one
set_high_bits ==
    /\ pc = "Decoded"
    /\ \E S \in SUBSET (1..(Len(input) - 1)) :
          /\ WithHighBits(input, S) # input
          /\ input' = WithHighBits(input, S)
    /\ resp' = input
    /\ result' = output
    /\ output' = NoResult
    /\ pc' = "Marked"
    /\ UNCHANGED <<cmd, trace, data_buffer>>

\* the caller drops the slices and the results
discard ==
    /\ pc \in {"Sanitized", "Resanitized", "Decoded", "Redecoded"}
    /\ pc' = "Idle"
    /\ resp' = <<>>
    /\ result' = NoResult
    /\ input' = <<>>
    /\ output' = NoResult
    /\ UNCHANGED <<cmd, trace, data_buffer>>

NextDecode ==
    \/ receive_bytes
    \/ sanitize
    \/ decode
    \/ set_high_bits
    \/ discard

SpecDecode == InitDecode /\ [][NextDecode]_vars

\* ------------------------------------------------------------------------
\* The decoding of run on two replies that differ after some place
\* ------------------------------------------------------------------------

\* The commands whose decoding is compared: one of the Ack arm (LedOn) and
\* three of the typed arm (LedState, DeviceInformation, Export)
PairCommands ==
    {Cmd(n, 0, <<>>) : n \in {"LedOn", "LedState", "DeviceInformation",
                              "Export"}}

\* Bytes a second reply holds after the place where it leaves the first
OtherFill == {0, 65, 128}

\* buf with every byte after place k replaced by g
Overwrite(buf, k, g) == [i \in 1..Len(buf) |-> IF i > k THEN g ELSE buf[i]]

\* Places after which a second reply differs: right after the status byte,
\* inside the payload, and around the first nul
OtherPlaces(buf) ==
    LET nul == Position(buf, 0)
    IN  ({1, 2, 3} \cup (IF nul = 0 THEN {}
                         ELSE {nul - 1, nul, nul + 1, nul + 2}))
        \cap (1..(Len(buf) - 1))

\* run has written, slept and read a reply into data_buffer
read_reply ==
    /\ pc = "Idle"
    /\ \E c \in PairCommands : cmd' = c
    /\ \E r \in Replies : data_buffer' = r
    /\ pc' = "Decoding"
    /\ UNCHANGED <<trace, resp, result, input, output>>

\* the caller keeps the reply and the result of the run and runs the
\* command again, the chip sending a reply that differs after some place
read_again ==
    /\ pc \in {"Done", "Failed"}
    /\ input = <<>>
    /\ input' = data_buffer
    /\ output' = result
    /\ \E k \in OtherPlaces(data_buffer), g \in OtherFill :
          /\ Overwrite(data_buffer, k, g) # data_buffer
          /\ data_buffer' = Overwrite(data_buffer, k, g)
    /\ pc' = "Decoding"
    /\ trace' = <<>>
    /\ resp' = <<>>
    /\ result' = NoResult
    /\ UNCHANGED cmd

\* the caller drops the replies and the results of both runs
drop_pair ==
    /\ pc \in {"Done", "Failed"}
    /\ input # <<>>
    /\ pc' = "Idle"
    /\ cmd' = NoCmd
    /\ trace' = <<>>
    /\ data_buffer' = <<>>
    /\ resp' = <<>>
    /\ result' = NoResult
    /\ input' = <<>>
    /\ output' = NoResult

NextPair ==
    \/ read_reply
    \/ decode_Ack
    \/ decode_Typed
    \/ parse
    \/ read_again
    \/ drop_pair

SpecPair == Init /\ [][NextPair]_vars

\* ------------------------------------------------------------------------
\* Reading the trace of a run
\* ------------------------------------------------------------------------

IsWrite(e) == e.op = "write"

IsRead(e) == e.op = "read"

IsSleep(e) == e.op = "sleep"

IsStatus(e) == e.op = "status"

IsDecode(e) == e.op = "decode"

IsParse(e) == e.op = "parse"

Writes == SelectSeq(trace, IsWrite)

ReadEvents == SelectSeq(trace, IsRead)

Sleeps == SelectSeq(trace, IsSleep)

StatusChecks == SelectSeq(trace, IsStatus)

Decodes == SelectSeq(trace, IsDecode)

Parses == SelectSeq(trace, IsParse)

\* the kinds of the entries of a trace, in order
Ops(t) == [i \in 1..Len(t) |-> t[i].op]

\* the place in trace of the last write attempt, 0 before any
LastWrite ==
    IF Writes = <<>> THEN 0
    ELSE CHOOSE i \in 1..Len(trace) :
            /\ trace[i].op = "write"
            /\ \A j \in (i + 1)..Len(trace) : trace[j].op # "write"

\* the write phase is over and the transport took the command
WriteAccepted == Writes # <<>> /\ Writes[Len(Writes)].ok

\* what run did after the last write attempt
AfterWrite == SubSeq(trace, LastWrite + 1, Len(trace))

\* the nul-terminated wire string of the running command
Wire == CommandString(cmd) \o <<0>>

Terminal == pc \in {"Done", "Failed"}

\* run failed with an error of the given kind
FailedWith(kind) == pc = "Failed" /\ IsErr(result) /\ Kind(result) = kind

\* the reply's status byte has been looked at
StatusChecked == StatusChecks # <<>>

\* the (1-based) place of the reply's first nul byte, 0 when it has none
FirstNul == Position(data_buffer, 0)

\* ------------------------------------------------------------------------
\* C1
\* ------------------------------------------------------------------------

\* what run does once a write has been accepted, whichever attempt it was:
\* the settle sleep, then for a reading command the read and the decoding
ContinuesAfterWrite ==
    /\ pc \notin {"Writing", "Retrying"}
    /\ ~FailedWith("Error writing to EZO device.")
    /\ pc = "Delaying" => AfterWrite = <<>>
    /\ pc # "Delaying" =>
          SubSeq(AfterWrite, 1, Len(SettleSleep(cmd))) = SettleSleep(cmd)
    /\ pc = "Reading" => AfterWrite = SettleSleep(cmd)
    /\ pc = "Decoding" =>
          AfterWrite = SettleSleep(cmd) \o <<Ev("read", TRUE, <<>>, 0)>>
    /\ (Terminal /\ Reads(cmd)) => ReadEvents # <<>>
    /\ (Terminal /\ ~Reads(cmd)) =>
          /\ pc = "Done"
          /\ AfterWrite = SettleSleep(cmd)

\* C1: a rejected first write followed by an accepted second one makes
\* exactly two write attempts, both of the same nul-terminated wire string,
\* and run goes on as after an accepted first write; an accepted first
\* write is the only write attempt.
C1_WriteRetry ==
    /\ (Writes # <<>> /\ Writes[1].ok) => Len(Writes) = 1
    /\ (Len(Writes) >= 2 /\ ~Writes[1].ok /\ Writes[2].ok) =>
          /\ Len(Writes) = 2
          /\ Writes[1].data = Wire
          /\ Writes[2].data = Wire
    /\ (Writes # <<>> /\ ~Writes[1].ok /\ pc # "Retrying") => Len(Writes) = 2
    /\ WriteAccepted => ContinuesAfterWrite

\* a run whose first write was rejected has succeeded after reading
C1_Witness ==
    /\ pc = "Done"
    /\ Len(Writes) = 2
    /\ ~Writes[1].ok
    /\ Writes[2].ok
    /\ ReadEvents # <<>>

\* ------------------------------------------------------------------------
\* C2
\* ------------------------------------------------------------------------

\* C2: when both write attempts are rejected run fails with the write
\* error, and there is no third write, no settle sleep and no read.
C2_WriteFailsTwice ==
    /\ Len(Writes) <= 2
    /\ (Len(Writes) = 2 /\ ~Writes[1].ok /\ ~Writes[2].ok) =>
          /\ FailedWith("Error writing to EZO device.")
          /\ result.chain[2] = "Command could not be sent"
          /\ Sleeps = <<>>
          /\ ReadEvents = <<>>
          /\ Ops(trace) = <<"write", "backoff", "write">>

C2_Witness ==
    /\ Len(Writes) = 2
    /\ ~Writes[1].ok
    /\ ~Writes[2].ok
    /\ pc = "Failed"

\* ------------------------------------------------------------------------
\* C3
\* ------------------------------------------------------------------------

\* C3: response_code maps 0x01 to Success, 0x02 to DeviceError, 0xFE to
\* Pending, 0xFF to NoDataExpected and each of the 252 other bytes to
\* UnknownError.
C3_ResponseCodeTotal ==
    IsOk(output) =>
        /\ input[1] = 1 => output.val = "Success"
        /\ input[1] = 2 => output.val = "DeviceError"
        /\ input[1] = 254 => output.val = "Pending"
        /\ input[1] = 255 => output.val = "NoDataExpected"
        /\ input[1] \in (0..255) \ {1, 2, 254, 255} =>
              output.val = "UnknownError"

C3_Witness == IsOk(output) /\ input[1] = 0 /\ output.val = "UnknownError"

\* ------------------------------------------------------------------------
\* C4
\* ------------------------------------------------------------------------

\* a byte with bit 7 cleared
Clear7(b) == IF b >= 128 THEN b - 128 ELSE b

\* the bytes between the status byte and the first nul, bit 7 cleared
PayloadText ==
    [i \in 1..(FirstNul - 2) |-> Clear7(data_buffer[i + 1])]

\* the typed arm has matched a reply whose status byte is 0x01
TypedSuccessReply ==
    /\ RunArm(cmd) = "Typed"
    /\ StatusChecked
    /\ data_buffer[1] = 1

\* the parser is, or has been, handed exactly the text s
HandedToParser(s) ==
    /\ pc = "Parsing" \/ Parses # <<>>
    /\ resp = s
    /\ Parses # <<>> => Parses[1].data = s

\* no byte before the first nul is 0x80
NoHighNul == \A i \in 2..(FirstNul - 1) : data_buffer[i] # 128

\* C4 as claimed: with status 0x01 and a nul after the status byte the
\* parser is handed the bytes before the first nul with bit 7 cleared;
\* without a nul run fails with MalformedResponse.
C4_Original ==
    TypedSuccessReply =>
        IF FirstNul # 0
        THEN HandedToParser(PayloadText)
        ELSE FailedWith("MalformedResponse") /\ Parses = <<>>

\* C4 as amended: with status 0x01, a nul after the status byte and no
\* 0x80 byte before the first nul, the parser is handed the bytes before
\* the first nul with bit 7 cleared; without a nul, or with a 0x80 byte
\* before the first nul, run fails with MalformedResponse and no parser
\* is invoked.
C4_DecodedText ==
    TypedSuccessReply =>
        IF FirstNul # 0 /\ NoHighNul
        THEN HandedToParser(PayloadText)
        ELSE FailedWith("MalformedResponse") /\ Parses = <<>>

\* "?L,1" with bit 7 set on two of its bytes has been decoded and parsed
C4_Witness ==
    /\ TypedSuccessReply
    /\ cmd.name = "LedState"
    /\ SubSeq(data_buffer, 2, 6) = <<191,76,172,49,0>>
    /\ pc = "Done"
    /\ resp = <<63,76,44,49>>

\* ------------------------------------------------------------------------
\* C5
\* ------------------------------------------------------------------------

\* the failure kind that goes with a status byte other than 0x01
KindOfStatus(b) ==
    IF b = 254 THEN "PendingResponse"
    ELSE IF b = 2 THEN "DeviceErrorResponse"
    ELSE IF b = 255 THEN "NoDataExpectedResponse"
    ELSE "MalformedResponse"

\* C5: a reply whose status byte is not 0x01 makes run of an Ack or typed
\* command fail with the kind of that status, and neither the payload is
\* decoded nor a parser invoked.
C5_StatusFailure ==
    (StatusChecked /\ data_buffer[1] # 1) =>
        /\ RunArm(cmd) \in {"Ack", "Typed"}
        /\ FailedWith(KindOfStatus(data_buffer[1]))
        /\ Decodes = <<>>
        /\ Parses = <<>>

\* a well-formed "?L,1" payload under a Pending status was not parsed
C5_Witness ==
    /\ cmd.name = "LedState"
    /\ StatusChecked
    /\ data_buffer[1] = 254
    /\ SubSeq(data_buffer, 2, 6) = <<63,76,44,49,0>>
    /\ FailedWith("PendingResponse")

\* ------------------------------------------------------------------------
\* C6
\* ------------------------------------------------------------------------

\* C6: an Ack command whose reply starts with 0x01 returns
\* ResponseStatus::Ack, whatever the rest of the buffer holds.
C6_AckOnSuccess ==
    (StatusChecked /\ RunArm(cmd) = "Ack" /\ data_buffer[1] = 1) =>
        /\ pc = "Done"
        /\ IsOk(result)
        /\ result.val.type = "ResponseStatus"
        /\ result.val.v = "Ack"

\* CAL,CLEAR acknowledged by a buffer that holds no nul at all
C6_Witness ==
    /\ cmd.name = "CalibrationClear"
    /\ pc = "Done"
    /\ data_buffer[1] = 1
    /\ FirstNul = 0

\* ------------------------------------------------------------------------
\* C7
\* ------------------------------------------------------------------------

\* the reply was read after an accepted write and its status byte, found
\* to be 0x01, was looked at after the read
ReadAndCheckedSuccess ==
    /\ WriteAccepted
    /\ Len(ReadEvents) = 1
    /\ ReadEvents[1].ok
    /\ Len(StatusChecks) = 1
    /\ StatusChecks[1].data = <<1>>
    /\ \E i, j, k \in 1..Len(trace) :
          /\ i < j /\ j < k
          /\ trace[i].op = "write" /\ trace[i].ok
          /\ trace[j].op = "read"
          /\ trace[k].op = "status"

\* C7 as claimed: every successful run, whatever the command, has read
\* the reply after the write and checked its status byte to be Success.
C7_Original == pc = "Done" => ReadAndCheckedSuccess

\* the steps of Idle -> Writing -> (Retrying?) -> Delaying -> Reading ->
\* Decoding -> Parsing -> Done|Failed, a command of shape 'none' leaving
\* Delaying for Done
C7_Steps ==
    \/ pc = "Idle" /\ pc' = "Writing"
    \/ pc = "Writing" /\ pc' \in {"Retrying", "Delaying", "Failed"}
    \/ pc = "Retrying" /\ pc' \in {"Delaying", "Failed"}
    \/ pc = "Delaying" /\ RunArm(cmd) # "NoAck" /\ pc' = "Reading"
    \/ pc = "Delaying" /\ RunArm(cmd) = "NoAck" /\ pc' = "Done"
    \/ pc = "Reading" /\ pc' \in {"Decoding", "Failed"}
    \/ pc = "Decoding" /\ RunArm(cmd) = "Typed" /\ pc' \in {"Parsing", "Failed"}
    \/ pc = "Decoding" /\ RunArm(cmd) = "Ack" /\ pc' \in {"Done", "Failed"}
    \/ pc = "Parsing" /\ pc' \in {"Done", "Failed"}
    \/ pc \in {"Done", "Failed"} /\ pc' = "Idle"

C7_SuccessHasRead ==
    pc = "Done" =>
        IF RunArm(cmd) # "NoAck"
        THEN ReadAndCheckedSuccess
        \* shape 'none': the write, the settle sleep, and nothing read
        ELSE WriteAccepted /\ ReadEvents = <<>> /\ StatusChecks = <<>>

\* C7 as amended: run of an Ack or typed command goes Idle -> Writing ->
\* (Retrying?) -> Delaying -> Reading -> Decoding -> ... -> Done|Failed and
\* succeeds only after reading the reply and finding its status byte to be
\* Success; run of a command of shape 'none' goes from Delaying to Done
\* without reading.
C7_StateMachine == []C7_SuccessHasRead /\ [][C7_Steps]_vars

\* an acknowledged command after its read
C7_Witness ==
    /\ pc = "Done"
    /\ RunArm(cmd) = "Ack"
    /\ ReadAndCheckedSuccess

\* ------------------------------------------------------------------------
\* C8
\* ------------------------------------------------------------------------

\* the place in trace of the first read, past the end before any
FirstRead ==
    IF ReadEvents = <<>> THEN Len(trace) + 1
    ELSE CHOOSE i \in 1..Len(trace) :
            /\ trace[i].op = "read"
            /\ \A j \in 1..(i - 1) : trace[j].op # "read"

\* C8: the settle sleep comes after the accepted write and before the
\* read; it lasts get_delay milliseconds when that is not zero and does
\* not happen when it is zero.
C8_SettleDelay ==
    /\ \A i \in 1..Len(trace) :
          trace[i].op = "sleep" =>
              /\ WriteAccepted
              /\ i = LastWrite + 1
              /\ i < FirstRead
              /\ trace[i].ms = Delay(cmd)
    /\ (WriteAccepted /\ pc # "Delaying") =>
          Len(Sleeps) = (IF Delay(cmd) > 0 THEN 1 ELSE 0)
    /\ ReadEvents # <<>> =>
          FirstRead = LastWrite + 1 + (IF Delay(cmd) > 0 THEN 1 ELSE 0)

\* STATUS has slept 300 ms between its write and its read
C8_Witness ==
    /\ cmd.name = "Status"
    /\ pc = "Decoding"
    /\ Ops(trace) = <<"write", "sleep", "read">>
    /\ trace[2].ms = 300

\* ------------------------------------------------------------------------
\* C9
\* ------------------------------------------------------------------------

\* how far run has come
Rank(p) ==
    CASE p = "Idle" -> 0
      [] p = "Writing" -> 1
      [] p = "Retrying" -> 2
      [] p = "Delaying" -> 3
      [] p = "Reading" -> 4
      [] p = "Decoding" -> 5
      [] p = "Parsing" -> 6
      [] p \in {"Done", "Failed"} -> 7

C9_Bounded ==
    /\ Len(Writes) <= 2
    /\ Len(ReadEvents) <= 1
    /\ Len(Sleeps) <= 1
    /\ Len(StatusChecks) <= 1
    /\ Len(Decodes) <= 1
    /\ Len(Parses) <= 1
    /\ pc = "Done" => IsOk(result)
    /\ pc = "Failed" => IsErr(result)
    \* Each position but Decoding and Parsing has a step guarded by pc
    \* alone; these two have one for the arms that reach them.
    /\ pc = "Decoding" => RunArm(cmd) \in {"Ack", "Typed"}
    /\ pc = "Parsing" => RunArm(cmd) = "Typed"

C9_Progress ==
    IF pc \in {"Done", "Failed"} THEN pc' = "Idle"
    ELSE Rank(pc') > Rank(pc)

\* C9: a run makes at most two writes and one read, every step takes it
\* closer to Done or Failed, and once it is Done or Failed nothing more is
\* written, slept or read: whatever the reply, the read or the parser
\* gave.
C9_Terminates == []C9_Bounded /\ [][C9_Progress]_vars

\* a Pending reply has ended the run after one write and one read
C9_Witness ==
    /\ FailedWith("PendingResponse")
    /\ Len(Writes) = 1
    /\ Len(ReadEvents) = 1

\* ------------------------------------------------------------------------
\* C10
\* ------------------------------------------------------------------------

\* C10: when the read fails after an accepted write, run fails with
\* I2CRead and the buffer, still all zeros, is neither decoded nor parsed.
C10_ReadFailure ==
    (ReadEvents # <<>> /\ ~ReadEvents[1].ok) =>
        /\ WriteAccepted
        /\ RunArm(cmd) \in {"Ack", "Typed"}
        /\ FailedWith("I2CRead")
        /\ StatusChecks = <<>>
        /\ Decodes = <<>>
        /\ Parses = <<>>
        /\ Len(data_buffer) = MAX_DATA
        /\ \A i \in 1..MAX_DATA : data_buffer[i] = 0

\* the read of a typed command failed
C10_Witness ==
    /\ RunArm(cmd) = "Typed"
    /\ ReadEvents # <<>>
    /\ ~ReadEvents[1].ok
    /\ pc = "Failed"

\* ------------------------------------------------------------------------
\* C11
\* ------------------------------------------------------------------------

\* a command has been built and its rendering parsed as its own type
RenderedAndParsed == pc = "Parsed" /\ cmd # NoCmd

\* an Import argument of 1 to 12 characters, none a comma or a lower-case
\* letter; the other commands have no such condition
ParsableArgument(c) ==
    c.name = "Import" =>
        /\ Len(c.text) >= 1
        /\ Len(c.text) <= 12
        /\ \A i \in 1..Len(c.text) :
              c.text[i] # 44 /\ ~(c.text[i] >= 97 /\ c.text[i] <= 122)

\* C11 as stated: for every constructible command value, parsing its
\* rendering with its type's FromStr succeeds and yields the value.
C11_Original == RenderedAndParsed => output = Ok(cmd)

\* C11: parsing the rendering of a command with its type's FromStr yields
\* the command for every value of the sixteen types other than Import and
\* for every Import whose argument has 1 to 12 characters, none a comma or
\* a lower-case letter; for every other Import it fails or yields another
\* value.
C11_RoundTrip ==
    RenderedAndParsed => (output = Ok(cmd) <=> ParsableArgument(cmd))

\* Import("123456ABCDEF"), twelve characters, has come back from its text
C11_Witness ==
    /\ RenderedAndParsed
    /\ cmd = Cmd("Import", 0, <<49,50,51,52,53,54,65,66,67,68,69,70>>)
    /\ input.s = <<73,77,80,79,82,84,44,49,50,51,52,53,54,65,66,67,68,69,70>>
    /\ output = Ok(cmd)

\* ------------------------------------------------------------------------
\* C12
\* ------------------------------------------------------------------------

\* C12: when a command type's FromStr accepts a text, it accepts the text
\* with the case of its letters changed and yields the same value; the
\* argument of an accepted Import has no lower-case letter.
C12_CaseInsensitive ==
    /\ (pc = "Reparsed" /\ IsOk(result)) => output = result
    /\ (pc \in {"Parsed", "Reparsed"} /\ IsOk(output)
            /\ output.val.name = "Import") =>
          \A i \in 1..Len(output.val.text) :
              ~(output.val.text[i] >= 97 /\ output.val.text[i] <= 122)

\* "IMPORT,123456abcdef" and a variant of it in another case have both
\* been parsed to Import("123456ABCDEF")
C12_Witness ==
    /\ pc = "Reparsed"
    /\ resp = <<73,77,80,79,82,84,44,49,50,51,52,53,54,97,98,99,100,101,102>>
    /\ input.s # resp
    /\ result = Ok(Cmd("Import", 0, <<49,50,51,52,53,54,65,66,67,68,69,70>>))
    /\ output = result

\* ------------------------------------------------------------------------
\* C13
\* ------------------------------------------------------------------------

\* C13 as stated: every rendered wire string has at most 40 characters.
C13_Original == pc = "Rendered" => Len(input.s) <= 40

\* C13: the wire string of every command value other than an Import has at
\* most 11 ASCII characters; the wire string of Import(s) has 7 characters
\* more than s, so it has at most 40 exactly when s has at most 33.
C13_WireLength ==
    pc = "Rendered" =>
        /\ cmd.name # "Import" => Len(input.s) <= 11
        /\ cmd.name = "Import" => Len(input.s) = 7 + Len(cmd.text)
        /\ Len(input.s) <= 40 <=>
              ~(cmd.name = "Import" /\ Len(cmd.text) > 33)
        /\ \A i \in 1..Len(input.s) : input.s[i] < 128

\* an Import of 33 characters has been rendered in 40
C13_Witness ==
    /\ pc = "Rendered"
    /\ cmd.name = "Import"
    /\ Len(cmd.text) = 33
    /\ Len(input.s) = 40

\* ------------------------------------------------------------------------
\* C14
\* ------------------------------------------------------------------------

\* the text after the seven characters of "IMPORT,"
DataField(s) == SubSeq(s, 8, Len(s))

\* C14 as stated: Import renders "IMPORT," and a data field of 1 to 12
\* characters.
C14_Original ==
    (pc = "Rendered" /\ cmd.name = "Import") =>
        /\ SubSeq(input.s, 1, 7) = <<73,77,80,79,82,84,44>>
        /\ Len(DataField(input.s)) >= 1
        /\ Len(DataField(input.s)) <= 12

\* C14: the wire string of Import(s) is "IMPORT," followed by s as it is,
\* of whatever length; it is Import's FromStr that takes only a data field
\* of 1 to 12 characters.
C14_ImportRendering ==
    /\ (pc = "Rendered" /\ cmd.name = "Import") =>
          /\ SubSeq(input.s, 1, 7) = <<73,77,80,79,82,84,44>>
          /\ DataField(input.s) = cmd.text
    /\ (pc \in {"Parsed", "Reparsed"} /\ input.type = "Import"
            /\ IsOk(output)) =>
          /\ Len(output.val.text) >= 1
          /\ Len(output.val.text) <= 12
          /\ Len(DataField(input.s)) = Len(output.val.text)

\* Import("ABCDEFGHIJKLMNO") has been rendered with its fifteen characters
C14_Witness ==
    /\ pc = "Rendered"
    /\ cmd = Cmd("Import", 0, <<65,66,67,68,69,70,71,72,73,74,75,76,77,78,79>>)
    /\ input.s = <<73,77,80,79,82,84,44,
                   65,66,67,68,69,70,71,72,73,74,75,76,77,78,79>>

\* ------------------------------------------------------------------------
\* C15
\* ------------------------------------------------------------------------

\* a and b differ at most in the case of their letters
SameIgnoringCase(a, b) ==
    /\ Len(a) = Len(b)
    /\ \A i \in 1..Len(a) :
          \/ a[i] = b[i]
          \/ IsLetter(a[i]) /\ IsLetter(b[i])
                /\ (a[i] - b[i] = 32 \/ b[i] - a[i] = 32)

\* "BAUD,<r>"
BaudWire(r) == <<66,65,85,68,44>> \o Decimal(r)

\* the text up to the first comma
FirstField(t) ==
    IF Position(t, 44) = 0 THEN t ELSE SubSeq(t, 1, Position(t, 44) - 1)

\* a text that begins with a case variant of "BAUD," and whose first field
\* after it is none of the eight rates
BaudWithOtherToken(s) ==
    /\ Len(s) >= 5
    /\ SameIgnoringCase(SubSeq(s, 1, 5), <<66,65,85,68,44>>)
    /\ FirstField(SubSeq(s, 6, Len(s))) \notin {Decimal(r) : r \in BpsRates}

\* C15: Baud's FromStr accepts exactly the case variants of "BAUD,<r>" with
\* r one of the eight rates, and yields Baud(r); a text beginning with
\* "BAUD," whose first field is anything else fails with BpsRateParse.
C15_BaudParse ==
    (pc \in {"Parsed", "Reparsed"} /\ input.type = "Baud") =>
        /\ \A r \in BpsRates :
              SameIgnoringCase(input.s, BaudWire(r)) =>
                  output = Ok(Cmd("Baud", r, <<>>))
        /\ IsOk(output) =>
              \E r \in BpsRates : SameIgnoringCase(input.s, BaudWire(r))
        /\ BaudWithOtherToken(input.s) =>
              IsErr(output) /\ Kind(output) = "BpsRateParse"

\* "baud,115200" has been parsed to Baud(115200)
C15_Witness ==
    /\ pc = "Parsed"
    /\ input = Call("Baud", <<98,97,117,100,44,49,49,53,50,48,48>>)
    /\ output = Ok(Cmd("Baud", 115200, <<>>))

\* ------------------------------------------------------------------------
\* C16
\* ------------------------------------------------------------------------

\* the wire strings of the commands, as the documentation of the chip
\* writes them
WireTable ==
    { <<Cmd("Baud", 300, <<>>), <<66,65,85,68,44,51,48,48>>>>,
      <<Cmd("Baud", 1200, <<>>), <<66,65,85,68,44,49,50,48,48>>>>,
      <<Cmd("Baud", 2400, <<>>), <<66,65,85,68,44,50,52,48,48>>>>,
      <<Cmd("Baud", 9600, <<>>), <<66,65,85,68,44,57,54,48,48>>>>,
      <<Cmd("Baud", 19200, <<>>), <<66,65,85,68,44,49,57,50,48,48>>>>,
      <<Cmd("Baud", 38400, <<>>), <<66,65,85,68,44,51,56,52,48,48>>>>,
      <<Cmd("Baud", 57600, <<>>), <<66,65,85,68,44,53,55,54,48,48>>>>,
      <<Cmd("Baud", 115200, <<>>), <<66,65,85,68,44,49,49,53,50,48,48>>>>,
      <<Cmd("CalibrationClear", 0, <<>>), <<67,65,76,44,67,76,69,65,82>>>>,
      <<Cmd("DeviceAddress", 0, <<>>), <<73,50,67,44,48>>>>,
      <<Cmd("DeviceAddress", 88, <<>>), <<73,50,67,44,56,56>>>>,
      <<Cmd("DeviceAddress", 65535, <<>>), <<73,50,67,44,54,53,53,51,53>>>>,
      <<Cmd("DeviceInformation", 0, <<>>), <<73>>>>,
      <<Cmd("Export", 0, <<>>), <<69,88,80,79,82,84>>>>,
      <<Cmd("ExportInfo", 0, <<>>), <<69,88,80,79,82,84,44,63>>>>,
      <<Cmd("Factory", 0, <<>>), <<70,65,67,84,79,82,89>>>>,
      <<Cmd("Find", 0, <<>>), <<70>>>>,
      <<Cmd("Import", 0, <<65,66,67>>), <<73,77,80,79,82,84,44,65,66,67>>>>,
      <<Cmd("Import", 0, <<49,50,51,52,53,54,97,98,99,100,101,102>>),
        <<73,77,80,79,82,84,44,49,50,51,52,53,54,97,98,99,100,101,102>>>>,
      <<Cmd("LedOff", 0, <<>>), <<76,44,48>>>>,
      <<Cmd("LedOn", 0, <<>>), <<76,44,49>>>>,
      <<Cmd("LedState", 0, <<>>), <<76,44,63>>>>,
      <<Cmd("ProtocolLockDisable", 0, <<>>), <<80,76,79,67,75,44,48>>>>,
      <<Cmd("ProtocolLockEnable", 0, <<>>), <<80,76,79,67,75,44,49>>>>,
      <<Cmd("ProtocolLockState", 0, <<>>), <<80,76,79,67,75,44,63>>>>,
      <<Cmd("Sleep", 0, <<>>), <<83,76,69,69,80>>>>,
      <<Cmd("Status", 0, <<>>), <<83,84,65,84,85,83>>>> }

\* the settle delays of the commands
DelayTable ==
    { <<n, 0>> : n \in {"Baud", "Factory", "Sleep"} }
    \cup { <<n, 300>> : n \in {"CalibrationClear", "DeviceAddress",
             "DeviceInformation", "Export", "ExportInfo", "Find", "Import",
             "LedOff", "LedOn", "LedState", "ProtocolLockDisable",
             "ProtocolLockEnable", "ProtocolLockState", "Status"} }

\* the settle phase of run is over
Settled == WriteAccepted /\ pc \notin {"Writing", "Retrying", "Delaying"}

C17_ParserResult ==
    /\ Len(Parses) <= 1
    /\ Parses # <<>> =>
          /\ RunArm(cmd) = "Typed"
          /\ WriteAccepted
          /\ Len(ReadEvents) = 1
          /\ ReadEvents[1].ok
          /\ data_buffer[1] = 1
          /\ Len(Decodes) = 1
          /\ string_from_response_data(Decodes[1].data) = Ok(Parses[1].data)
          /\ Terminal
          /\ result = RunFunc(cmd, Parses[1].data)
          /\ pc = IF IsOk(result) THEN "Done" ELSE "Failed"
          /\ IsErr(result) => result = Err(<<"ResponseParse">>)
                                 \/ result.chain[2] \in {"ParseIntError",
                                                          "ParseFloatError"}
    /\ (Terminal /\ RunArm(cmd) = "Typed" /\ Parses = <<>>) => IsErr(result)
    /\ (Parses # <<>> /\ cmd.name = "DeviceInformation") =>
          /\ Parses[1].data = <<63,73,44,82,84,68,44,50,46,48,49>> =>
                result = Ok([type |-> "DeviceInfo", device |-> <<82,84,68>>,
                             firmware |-> <<50,46,48,49>>])
          /\ Parses[1].data = <<63,73,44,82,84,68,44>> =>
                result = Err(<<"ResponseParse">>)

\* DeviceInformation has failed with the parser's ResponseParse on the
\* decoded "?I,RTD,"
C17_Witness ==
    /\ pc = "Failed"
    /\ cmd.name = "DeviceInformation"
    /\ Parses # <<>>
    /\ Parses[1].data = <<63,73,44,82,84,68,44>>
    /\ result = Err(<<"ResponseParse">>)

\* ------------------------------------------------------------------------
\* C18
\* ------------------------------------------------------------------------

\* the parser of the given response type has been applied to input.s
ParsedAs(type) == pc = "Parsed" /\ input.type = type

\* the places of the commas of s
Commas(s) == {i \in 1..Len(s) : s[i] = 44}

\* s is tag, a field, a comma and a field, without another comma
TwoFieldsAfter(tag, s) ==
    /\ Len(s) >= Len(tag)
    /\ SubSeq(s, 1, Len(tag)) = tag
    /\ Cardinality(Commas(SubSeq(s, Len(tag) + 1, Len(s)))) = 1

\* the first and the second of the two fields
FieldOne(tag, s) ==
    LET rest == SubSeq(s, Len(tag) + 1, Len(s))
        c == CHOOSE i \in Commas(rest) : TRUE
    IN  SubSeq(rest, 1, c - 1)

FieldTwo(tag, s) ==
    LET rest == SubSeq(s, Len(tag) + 1, Len(s))
        c == CHOOSE i \in Commas(rest) : TRUE
    IN  SubSeq(rest, c + 1, Len(rest))

\* C18: DeviceInfo::parse succeeds exactly on "?I,<device>,<firmware>" with
\* two non-empty fields and no third one, and returns the two field texts;
\* on every other string it fails with ResponseParse.
C18_DeviceInfo ==
    ParsedAs("DeviceInfo") =>
        IF /\ TwoFieldsAfter(<<63,73,44>>, input.s)
           /\ FieldOne(<<63,73,44>>, input.s) # <<>>
           /\ FieldTwo(<<63,73,44>>, input.s) # <<>>
        THEN output = Ok([type |-> "DeviceInfo",
                          device |-> FieldOne(<<63,73,44>>, input.s),
                          firmware |-> FieldTwo(<<63,73,44>>, input.s)])
        ELSE output = Err(<<"ResponseParse">>)

\* "?I,RTD,2.01" has been parsed to DeviceInfo{RTD, 2.01}
C18_Witness ==
    /\ ParsedAs("DeviceInfo")
    /\ input.s = <<63,73,44,82,84,68,44,50,46,48,49>>
    /\ output = Ok([type |-> "DeviceInfo", device |-> <<82,84,68>>,
                    firmware |-> <<50,46,48,49>>])

\* ------------------------------------------------------------------------
\* C19
\* ------------------------------------------------------------------------

\* the restart reasons by letter: P, S, B, W, U
ReasonTable ==
    { <<80, "PoweredOff">>, <<83, "SoftwareReset">>, <<66, "BrownOut">>,
      <<87, "Watchdog">>, <<85, "Unknown">> }

\* "?STATUS,<letter>,<voltage>" with one of the five letters and a voltage
\* that is a floating-point number, and nothing more
StatusForm(s) ==
    /\ TwoFieldsAfter(<<63,83,84,65,84,85,83,44>>, s)
    /\ \E p \in ReasonTable :
          FieldOne(<<63,83,84,65,84,85,83,44>>, s) = <<p[1]>>
    /\ IsOk(f64_from_str(FieldTwo(<<63,83,84,65,84,85,83,44>>, s)))

\* C19: DeviceStatus::parse succeeds only on "?STATUS,<letter>,<voltage>"
\* with exactly two fields, the letter one of P, S, B, W, U, mapped to
\* PoweredOff, SoftwareReset, BrownOut, Watchdog, Unknown, and the voltage
\* a number, whose value it returns; every other string fails.
C19_DeviceStatus ==
    ParsedAs("DeviceStatus") =>
        /\ IsOk(output) <=> StatusForm(input.s)
        /\ IsOk(output) =>
              /\ \E p \in ReasonTable :
                    /\ input.s[9] = p[1]
                    /\ output.val.restart_reason = p[2]
              /\ output.val.vcc_voltage =
                    f64_from_str(FieldTwo(<<63,83,84,65,84,85,83,44>>,
                                          input.s)).val
        /\ IsErr(output) => Kind(output) = "ResponseParse"
        /\ input.s = <<63,83,84,65,84,85,83,44,80,44,53,46,48,51,56>> =>
              output = Ok([type |-> "DeviceStatus",
                           restart_reason |-> "PoweredOff",
                           vcc_voltage |-> [class |-> "num", neg |-> FALSE,
                                            mant |-> 5038, exp |-> -3]])

\* "?STATUS,W,5.038" has been parsed to a Watchdog restart at 5.038 V
C19_Witness ==
    /\ ParsedAs("DeviceStatus")
    /\ input.s = <<63,83,84,65,84,85,83,44,87,44,53,46,48,51,56>>
    /\ IsOk(output)
    /\ output.val.restart_reason = "Watchdog"
    /\ output.val.vcc_voltage.mant = 5038
    /\ output.val.vcc_voltage.exp = -3

\* ------------------------------------------------------------------------
\* C20
\* ------------------------------------------------------------------------

\* C20: Exported::parse returns Done exactly for "*DONE", fails for every
\* other string beginning with '*', returns ExportString(s) for every s of
\* 1 to 12 characters not beginning with '*', and fails for the empty
\* string and for every string of 13 characters or more; it never returns
\* an ExportString beginning with '*'.
C20_Exported ==
    ParsedAs("Exported") =>
        /\ input.s = <<42,68,79,78,69>> =>
              IsOk(output) /\ output.val.v = "Done"
        /\ (IsOk(output) /\ output.val.v = "Done") =>
              input.s = <<42,68,79,78,69>>
        /\ (Len(input.s) >= 1 /\ input.s[1] = 42
                /\ input.s # <<42,68,79,78,69>>) =>
              output = Err(<<"ResponseParse">>)
        /\ (Len(input.s) >= 1 /\ Len(input.s) <= 12 /\ input.s[1] # 42) =>
              /\ IsOk(output)
              /\ output.val.v = "ExportString"
              /\ output.val.s = input.s
        /\ (Len(input.s) = 0 \/ Len(input.s) >= 13) =>
              output = Err(<<"ResponseParse">>)
        /\ (IsOk(output) /\ output.val.v = "ExportString") =>
              output.val.s[1] # 42

\* the twelve characters of "123456abcdef" have been parsed to an
\* ExportString
C20_Witness ==
    /\ ParsedAs("Exported")
    /\ input.s = <<49,50,51,52,53,54,97,98,99,100,101,102>>
    /\ IsOk(output)
    /\ output.val.v = "ExportString"
    /\ output.val.s = input.s

\* ------------------------------------------------------------------------
\* C21
\* ------------------------------------------------------------------------

\* a decimal unsigned 16-bit integer: digits, with or without a '+' before
\* them, of a value up to 65535
IsU16Text(f) ==
    LET digits == IF Len(f) > 0 /\ f[1] = 43 THEN Tail(f) ELSE f
    IN  /\ Len(digits) > 0
        /\ \A i \in 1..Len(digits) : digits[i] >= 48 /\ digits[i] <= 57
        /\ DigitsValue(digits) <= 65535

\* the number a decimal text stands for
U16Value(f) == DigitsValue(IF f[1] = 43 THEN Tail(f) ELSE f)

\* C21: ExportedInfo::parse succeeds exactly on "?EXPORT,<lines>,<total>"
\* with two fields and no third, both decimal integers of 0..65535, and
\* returns the two numbers; on every other string it fails with
\* ResponseParse.
C21_ExportedInfo ==
    ParsedAs("ExportedInfo") =>
        IF /\ TwoFieldsAfter(<<63,69,88,80,79,82,84,44>>, input.s)
           /\ IsU16Text(FieldOne(<<63,69,88,80,79,82,84,44>>, input.s))
           /\ IsU16Text(FieldTwo(<<63,69,88,80,79,82,84,44>>, input.s))
        THEN output =
               Ok([type |-> "ExportedInfo",
                   lines |->
                     U16Value(FieldOne(<<63,69,88,80,79,82,84,44>>, input.s)),
                   total_bytes |->
                     U16Value(FieldTwo(<<63,69,88,80,79,82,84,44>>, input.s))])
        ELSE IsErr(output) /\ Kind(output) = "ResponseParse"

\* "?EXPORT,10,120" has been parsed to 10 lines and 120 bytes
C21_Witness ==
    /\ ParsedAs("ExportedInfo")
    /\ input.s = <<63,69,88,80,79,82,84,44,49,48,44,49,50,48>>
    /\ output = Ok([type |-> "ExportedInfo", lines |-> 10,
                    total_bytes |-> 120])

\* ------------------------------------------------------------------------
\* C22
\* ------------------------------------------------------------------------

\* C22: ProtocolLockStatus::parse accepts "?PLOCK,1" as On and "?PLOCK,0"
\* as Off, LedStatus::parse accepts "?L,1" as On and "?L,0" as Off, and
\* both fail with ResponseParse on every other string.
C22_OnOff ==
    /\ ParsedAs("ProtocolLockStatus") =>
          IF input.s = <<63,80,76,79,67,75,44,49>>
          THEN output = Ok([type |-> "ProtocolLockStatus", v |-> "On"])
          ELSE IF input.s = <<63,80,76,79,67,75,44,48>>
          THEN output = Ok([type |-> "ProtocolLockStatus", v |-> "Off"])
          ELSE output = Err(<<"ResponseParse">>)
    /\ ParsedAs("LedStatus") =>
          IF input.s = <<63,76,44,49>>
          THEN output = Ok([type |-> "LedStatus", v |-> "On"])
          ELSE IF input.s = <<63,76,44,48>>
          THEN output = Ok([type |-> "LedStatus", v |-> "Off"])
          ELSE output = Err(<<"ResponseParse">>)

\* "?PLOCK,1," with its empty second field has been refused
C22_Witness ==
    /\ ParsedAs("ProtocolLockStatus")
    /\ input.s = <<63,80,76,79,67,75,44,49,44>>
    /\ output = Err(<<"ResponseParse">>)

\* ------------------------------------------------------------------------
\* C23
\* ------------------------------------------------------------------------

\* input.s begins with the tag of its parser in another case
TagInOtherCase ==
    /\ ResponseTag(input.type) # <<>>
    /\ Len(input.s) >= Len(ResponseTag(input.type))
    /\ SubSeq(input.s, 1, Len(ResponseTag(input.type)))
          # ResponseTag(input.type)
    /\ SameIgnoringCase(SubSeq(input.s, 1, Len(ResponseTag(input.type))),
                        ResponseTag(input.type))

\* C23: each of the six response parsers returns on every string, either a
\* value or an error of kind ResponseParse (a failed number conversion
\* included, as the cause of the error); none panics, and each refuses a
\* string whose tag is in another case.
C23_ResponseParseOnly ==
    pc = "Parsed" /\ input.type \in ResponseTypes =>
        /\ output.status \in {"ok", "err"}
        /\ IsErr(output) => Kind(output) = "ResponseParse"
        /\ TagInOtherCase => IsErr(output)

\* "?EXPORT,65536,1" has failed with ResponseParse caused by the integer
\* conversion
C23_Witness ==
    /\ ParsedAs("ExportedInfo")
    /\ input.s = <<63,69,88,80,79,82,84,44,54,53,53,51,54,44,49>>
    /\ output = Err(<<"ResponseParse", "ParseIntError">>)

\* ------------------------------------------------------------------------
\* C24
\* ------------------------------------------------------------------------

\* C24: turn_off_high_bits keeps the length of the buffer, clears bit 7 of
\* every byte and keeps its seven other bits; it leaves a buffer of bytes
\* below 0x80 as it is, and applied a second time it changes nothing.
C24_HighBitsOff ==
    /\ pc = "Sanitized" =>
          /\ Len(output.val) = Len(input)
          /\ \A i \in 1..Len(input) : output.val[i] = Clear7(input[i])
          /\ (\A i \in 1..Len(input) : input[i] < 128) => output.val = input
    /\ pc = "Resanitized" => output.val = resp

\* the flipped "?I,pH,1.98" of the test has been cleaned
C24_Witness ==
    /\ pc = "Sanitized"
    /\ input = <<63,73,172,112,200,172,49,46,57,56,0>>
    /\ output.val = <<63,73,44,112,72,44,49,46,57,56,0>>

\* ------------------------------------------------------------------------
\* C25
\* ------------------------------------------------------------------------

\* characters of 1..127 followed by one nul
CleanTerminated(s) ==
    /\ Len(s) >= 1
    /\ s[Len(s)] = 0
    /\ \A i \in 1..(Len(s) - 1) : s[i] >= 1 /\ s[i] <= 127

\* C25: a nul-terminated payload of 7-bit characters other than nul decodes
\* to its characters, and it decodes to the same string with bit 7 set on
\* any of the bytes before the terminator.
C25_HighBitsIgnored ==
    /\ (pc = "Decoded" /\ CleanTerminated(input)) =>
          output = Ok(SubSeq(input, 1, Len(input) - 1))
    /\ (pc = "Redecoded" /\ CleanTerminated(resp)) =>
          /\ output = result
          /\ output = Ok(SubSeq(resp, 1, Len(resp) - 1))

\* "A\0" has been decoded again as 0xC1 0x00, to "A"
C25_Witness ==
    /\ pc = "Redecoded"
    /\ resp = <<65, 0>>
    /\ input = <<193, 0>>
    /\ output = Ok(<<65>>)

\* ------------------------------------------------------------------------
\* C26
\* ------------------------------------------------------------------------

\* the places of the bytes of s that are among the given ones
PlacesOf(s, bytes) == {i \in 1..Len(s) : s[i] \in bytes}

\* C26 as stated: a slice without a 0x00 byte fails with MalformedResponse,
\* and a slice is decoded only when its single 0x00 byte is its last byte.
C26_Original ==
    pc \in {"Decoded", "Redecoded"} =>
        /\ PlacesOf(input, {0}) = {} =>
              IsErr(output) /\ Kind(output) = "MalformedResponse"
        /\ IsOk(output) => PlacesOf(input, {0}) = {Len(input)}

\* C26: a slice without a byte 0x00 or 0x80 (a nul once bit 7 is cleared),
\* the empty slice included, fails with MalformedResponse, and a slice is
\* decoded only when its single byte 0x00 or 0x80 is its last byte; every
\* other slice fails with MalformedResponse.
C26_NulTerminated ==
    pc \in {"Decoded", "Redecoded"} =>
        /\ PlacesOf(input, {0, 128}) = {} =>
              IsErr(output) /\ Kind(output) = "MalformedResponse"
        /\ IsOk(output) => PlacesOf(input, {0, 128}) = {Len(input)}
        /\ IsErr(output) => Kind(output) = "MalformedResponse"

\* 0xff, without a nul, has been refused
C26_Witness ==
    /\ pc = "Decoded"
    /\ input = <<255>>
    /\ IsErr(output)
    /\ Kind(output) = "MalformedResponse"

\* ------------------------------------------------------------------------
\* C27
\* ------------------------------------------------------------------------

\* both runs of the command have returned
BothReturned == pc \in {"Done", "Failed"} /\ input # <<>>

\* a and b have the same status byte, and the same bytes up to and
\* including the first nul of a (the same bytes when a has none)
AgreeToFirstNul(a, b) ==
    /\ a[1] = b[1]
    /\ IF \E i \in 1..Len(a) : a[i] = 0
       THEN LET nul == CHOOSE i \in 1..Len(a) :
                          a[i] = 0 /\ \A j \in 1..(i - 1) : a[j] # 0
            IN  \A i \in 1..nul : a[i] = b[i]
       ELSE a = b

\* C27: two replies with the same status byte and the same bytes up to
\* the first nul give a typed command the same result, and two replies
\* with the same status byte give an Ack command the same result.
C27_TailIgnored ==
    BothReturned =>
        /\ (RunArm(cmd) = "Typed" /\ AgreeToFirstNul(input, data_buffer)) =>
              result = output
        /\ (RunArm(cmd) = "Ack" /\ input[1] = data_buffer[1]) =>
              result = output

\* DeviceInformation has returned the same DeviceInfo for two replies that
\* differ after the terminator
C27_Witness ==
    /\ BothReturned
    /\ cmd.name = "DeviceInformation"
    /\ AgreeToFirstNul(input, data_buffer)
    /\ input # data_buffer
    /\ IsOk(result)
    /\ result = output

\* ------------------------------------------------------------------------
\* C28
\* ------------------------------------------------------------------------

\* the typed arm has decoded the reply into a string
DecodingSucceeded ==
    /\ RunArm(cmd) = "Typed"
    /\ pc = "Parsing" \/ Parses # <<>>

\* C28: whenever the typed arm decodes a reply, the decoded string holds
\* no nul character and only 7-bit characters, and no byte of the reply
\* before its first nul is 0x80.
C28_DecodedClean ==
    DecodingSucceeded =>
        /\ \A i \in 1..Len(resp) : resp[i] # 0 /\ resp[i] < 128
        /\ NoHighNul

\* LedState has decoded "?L,1" from a reply with bit 7 set on its bytes
\* and is about to parse it
C28_Witness ==
    /\ DecodingSucceeded
    /\ pc = "Parsing"
    /\ cmd.name = "LedState"
    /\ data_buffer[2] = 191
    /\ resp = <<63,76,44,49>>

\* ------------------------------------------------------------------------
\* C29
\* ------------------------------------------------------------------------

\* s begins with a case variant of the text p
BeginsIgnoringCase(s, p) ==
    Len(s) >= Len(p) /\ SameIgnoringCase(SubSeq(s, 1, Len(p)), p)

\* the text after the first n characters of s
After(s, n) == SubSeq(s, n + 1, Len(s))

\* "BAUD," in some case, one of the eight rates, and a further field
BaudWithExtraField(s) ==
    /\ BeginsIgnoringCase(s, <<66,65,85,68,44>>)
    /\ Position(After(s, 5), 44) # 0
    /\ FirstField(After(s, 5)) \in {Decimal(r) : r \in BpsRates}

\* "I2C," in some case and decimal digits of a value above 65535
AddressOutOfRange(s) ==
    /\ BeginsIgnoringCase(s, <<73,50,67,44>>)
    /\ Len(s) > 4
    /\ \A i \in 5..Len(s) : s[i] >= 48 /\ s[i] <= 57
    /\ DigitsValue(After(s, 4)) > 65535

\* "IMPORT," in some case and a data field of no or of over 12 characters
ImportFieldOutOfRange(s) ==
    /\ BeginsIgnoringCase(s, <<73,77,80,79,82,84,44>>)
    /\ Len(FirstField(After(s, 7))) \notin 1..12

\* C29: a text rejected by the FromStr of a command type other than Baud
\* fails with CommandParse, an I2C value above 65535 and an IMPORT field of
\* length 0 or above 12 are rejected, and Baud's FromStr fails with
\* BaudParse on a text without the "BAUD," prefix and on a valid rate
\* followed by a further field.
C29_ParseFailureKinds ==
    pc \in {"Parsed", "Reparsed"} =>
        /\ (input.type # "Baud" /\ IsErr(output)) =>
              Kind(output) = "CommandParse"
        /\ (input.type = "DeviceAddress" /\ AddressOutOfRange(input.s)) =>
              IsErr(output)
        /\ (input.type = "Import" /\ ImportFieldOutOfRange(input.s)) =>
              IsErr(output)
        /\ (input.type = "Baud"
              /\ (~BeginsIgnoringCase(input.s, <<66,65,85,68,44>>)
                    \/ BaudWithExtraField(input.s))) =>
              IsErr(output) /\ Kind(output) = "BaudParse"

\* "i2c,65536" has been rejected as a DeviceAddress with CommandParse
C29_Witness ==
    /\ pc = "Parsed"
    /\ input = Call("DeviceAddress", <<105,50,99,44,54,53,53,51,54>>)
    /\ AddressOutOfRange(input.s)
    /\ IsErr(output)
    /\ Kind(output) = "CommandParse"

\* ------------------------------------------------------------------------
\* C30
\* ------------------------------------------------------------------------

\* the commands defined without a response: BAUD, I2C, FACTORY, F, SLEEP
ShapeNone == {"Baud", "DeviceAddress", "Factory", "Find", "Sleep"}

\* C30: the commands of shape 'none' are BAUD, I2C, FACTORY, F and SLEEP;
\* run of such a command never reads a reply nor looks at a status byte,
\* and it returns, with ResponseStatus::None exactly when the last write
\* attempt was accepted.
C30_NoneNeverReads ==
    pc # "Idle" =>
        /\ RunArm(cmd) = "NoAck" <=> cmd.name \in ShapeNone
        /\ RunArm(cmd) = "NoAck" =>
              /\ ReadEvents = <<>>
              /\ StatusChecks = <<>>
              /\ data_buffer = <<>>
              /\ pc \notin {"Reading", "Decoding", "Parsing"}
              /\ Terminal =>
                    (result = Ok(ResponseStatus("None")) <=> WriteAccepted)
              /\ pc = "Failed" => ~WriteAccepted

\* SLEEP has returned ResponseStatus::None after its second write attempt
C30_Witness ==
    /\ pc = "Done"
    /\ cmd.name = "Sleep"
    /\ RunArm(cmd) = "NoAck"
    /\ Len(Writes) = 2
    /\ WriteAccepted
    /\ ReadEvents = <<>>
    /\ result = Ok(ResponseStatus("None"))

====
